---- MODULE Spec2Model ----
(***************************************************************************)
(* PolyAgent: the conversation loop (internal/tui/model.go), the stream    *)
(* producer (internal/api/client.go), the tool dispatcher (ToolManager)    *)
(* and the file engine (internal/mcp/file_engine.go, handler.go).          *)
(***************************************************************************)
EXTENDS Integers, Sequences, FiniteSets, Bags, TLC

VARIABLES
    \* ---- conversation loop (tui.Model) ----
    thinking,          \* Model.thinking
    currentResp,       \* Model.currentResp, a sequence of text tokens
    pendingToolCalls,  \* Model.pendingToolCalls
    apiMessages,       \* Model.apiMessages
    streams,           \* every stream opened so far: channels, producer, ctx
    cmds,              \* tea.Cmd closures that are running (bag); a closure's
                       \* return and the Update of its message are one step
    \* ---- ToolManager.HandleToolCalls run on its own ----
    htc,
    \* ---- file engine and file tools ----
    fs,                \* the filesystem
    cache,             \* FileEngine.cache.items
    now,               \* the clock, in minutes
    op,                \* the operation that runs or ran last, with the
                       \* filesystem and the cache as they were when it was
                       \* called
    \* ---- RetryableHTTPClient.Do run on its own ----
    rt,
    \* ---- FileEngine.WriteFile calls that run at the same time ----
    writers            \* one record per call: arguments, position, open file

loopVars == <<thinking, currentResp, pendingToolCalls, apiMessages, streams, cmds>>
htcVars == <<htc>>
feVars == <<fs, cache, now, op>>
rtVars == <<rt>>
otherThanLoop == <<htc, fs, cache, now, op, rt, writers>>
otherThanHtc == <<thinking, currentResp, pendingToolCalls, apiMessages, streams, cmds,
                  fs, cache, now, op, rt, writers>>
otherThanFe == <<thinking, currentResp, pendingToolCalls, apiMessages, streams, cmds, htc,
                 rt, writers>>
otherThanRt == <<thinking, currentResp, pendingToolCalls, apiMessages, streams, cmds, htc,
                 fs, cache, now, op, writers>>
otherThanWriters == <<thinking, currentResp, pendingToolCalls, apiMessages, streams, cmds,
                      htc, now, op, rt>>
vars == <<thinking, currentResp, pendingToolCalls, apiMessages, streams, cmds, htc,
          fs, cache, now, op, rt, writers>>

-----------------------------------------------------------------------------
(* Bounds of the model *)

MaxStreams == 2      \* streams opened in one run
MaxFrames == 2       \* frames the upstream sends in one run, all streams together
MaxTextFrames == 11   \* frames of a text-only response, over all streams
MaxCalls == 2        \* length of a tool-call list given to HandleToolCalls
MaxHistory == 4      \* messages in the API history

(* Program constants *)

ChunkChCap == 10
ReasoningChCap == 10
ToolCallChCap == 5
ErrChCap == 1

-----------------------------------------------------------------------------
(* Sequences *)

Last(s) == s[Len(s)]

RECURSIVE Flatten(_)
Flatten(ss) == IF ss = <<>> THEN <<>> ELSE Head(ss) \o Flatten(Tail(ss))

-----------------------------------------------------------------------------
(* JSON, as far as tool-call arguments need it.  A json.RawMessage is the  *)
(* sequence of its characters.                                             *)

QUOTE == "\""

RECURSIVE Escape(_)
Escape(s) ==
    IF s = <<>> THEN <<>>
    ELSE (IF Head(s) = QUOTE THEN <<"\\", QUOTE>> ELSE <<Head(s)>>) \o Escape(Tail(s))

\* json.Marshal(string): the quoted string token, inner quotes escaped
Quote(s) == <<QUOTE>> \o Escape(s) \o <<QUOTE>>

IsJSONString(raw) ==
    /\ Len(raw) >= 2
    /\ raw[1] = QUOTE
    /\ raw[Len(raw)] = QUOTE
    /\ \A i \in 2..(Len(raw) - 1) : raw[i] # QUOTE

Unquote(raw) == SubSeq(raw, 2, Len(raw) - 1)

\* json.Unmarshal(raw, &map): the only object text of the model is {}
IsJSONObject(raw) == raw = <<"{", "}">>

-----------------------------------------------------------------------------
(* api.Message constructors *)

NoCalls == <<>>

TextMessage(role, content) ==
    [role |-> role, content |-> Quote(content), tool_calls |-> NoCalls,
     tool_call_id |-> "", name |-> ""]

\* a tool-call message that also carries text
ToolCallMessageWithText(toolCalls) ==
    [role |-> "assistant", content |-> Quote(<<"a">>), tool_calls |-> toolCalls,
     tool_call_id |-> "", name |-> ""]

ToolCallMessage(toolCalls) ==
    [role |-> "assistant", content |-> <<"null">>, tool_calls |-> toolCalls,
     tool_call_id |-> "", name |-> ""]

ToolCall(id, name, arguments) == [id |-> id, name |-> name, arguments |-> arguments]

-----------------------------------------------------------------------------
(* ToolManager *)

\* what the registry's handler does with a call whose arguments parsed
ToolOutcomes == {"ok", "fail", "panic"}

\* ToolRegistry.HandleCallTool: the text of the result and whether an error
\* is returned.  A panic of handler.Execute is recovered by the function
\* literal that calls it, whose unnamed results are then nil, nil; the text
\* is fmt.Sprint of the nil result.
HandleCallTool(outcome) ==
    CASE outcome = "ok" -> [text |-> <<"done">>, err |-> FALSE]
      [] outcome = "fail" -> [text |-> <<>>, err |-> TRUE]
      [] OTHER -> [text |-> <<"<nil>">>, err |-> FALSE]

\* executeToolCall handing every call to the handler, its arguments parsed
\* or not
executeToolCallAlways(toolCall, outcome) ==
    LET r == HandleCallTool(outcome)
    IN  [result |-> r.text, err |-> r.err, panic |-> FALSE]

\* executeToolCall with no recover handler in it or below it
executeToolCallUnrecovered(toolCall, outcome) ==
    LET r == HandleCallTool(outcome)
    IN  [result |-> r.text, err |-> r.err, panic |-> outcome = "panic"]

\* executeToolCall, and executeWithArgs for a registered tool: the result,
\* whether an error is returned, and whether a panic leaves the function
\* (none does: each of the three functions recovers)
executeToolCall(toolCall, outcome) ==
    LET args == toolCall.arguments
        r == HandleCallTool(outcome)
        run == [result |-> r.text, err |-> r.err, panic |-> FALSE]
        failed == [result |-> <<>>, err |-> TRUE, panic |-> FALSE]
    IN  IF Len(args) = 0 THEN run
        ELSE IF IsJSONObject(args) THEN run
        ELSE IF ~IsJSONString(args) THEN failed
        ELSE IF ~IsJSONObject(Unquote(args)) THEN failed
        ELSE run

\* the body of HandleToolCalls' loop: one call dispatched, one message appended
HandleToolCallsMutSkipFailed(messages, toolCall, outcome) ==
    LET r == executeToolCall(toolCall, outcome)
    IN  IF r.err THEN messages
        ELSE Append(messages, [role |-> "tool", content |-> Quote(r.result),
                               tool_calls |-> NoCalls,
                               tool_call_id |-> toolCall.id, name |-> toolCall.name])

HandleToolCallsIter(messages, toolCall, outcome) ==
    LET r == executeToolCall(toolCall, outcome)
        result == IF r.err THEN Quote(<<"Error">>) ELSE r.result
    IN  Append(messages, [role |-> "tool", content |-> Quote(result),
                          tool_calls |-> NoCalls,
                          tool_call_id |-> toolCall.id, name |-> toolCall.name])

RECURSIVE HandleToolCallsFrom(_, _, _)
HandleToolCallsFrom(messages, toolCalls, outcomes) ==
    IF toolCalls = <<>> THEN messages
    ELSE HandleToolCallsFrom(HandleToolCallsIter(messages, Head(toolCalls), Head(outcomes)),
                             Tail(toolCalls), Tail(outcomes))

HandleToolCalls(toolCalls, outcomes) == HandleToolCallsFrom(<<>>, toolCalls, outcomes)

-----------------------------------------------------------------------------
(* The upstream response: the frames StreamChat reads (client.go 289-316) *)

Frame(content, reasoning, toolCalls, malformed) ==
    [content |-> content, reasoning |-> reasoning, toolCalls |-> toolCalls,
     malformed |-> malformed]

\* tool-call fragments: the arguments field is a JSON string token
Fragments ==
    { ToolCall("c1", "read_file", Quote(<<"{">>)),
      ToolCall("c1", "read_file", Quote(<<"}">>)),
      ToolCall("c2", "write_file", Quote(<<"{", "}">>)) }

Frames ==
    { Frame(<<"a">>, <<>>, <<>>, FALSE) }
    \cup { Frame(<<>>, <<>>, <<tc>>, FALSE) : tc \in Fragments }

-----------------------------------------------------------------------------
(* Conversation loop *)

SystemPrompt == TextMessage("system", <<"PolyAgent">>)

\* model_helpers.go: prepend the system prompt unless one is there
addSystemPromptIfNeeded(messages) ==
    IF \E i \in 1..Len(messages) : messages[i] = SystemPrompt
    THEN messages
    ELSE <<SystemPrompt>> \o messages

\* StreamChatWithChannel: four fresh channels and a producer goroutine
NewStream(req) ==
    [req |-> req, pc |-> "run", frames |-> <<>>,
     chunkCh |-> <<>>, reasoningCh |-> <<>>, toolCallCh |-> <<>>, errCh |-> <<>>,
     closed |-> FALSE, cancelled |-> FALSE, done |-> FALSE]

RecvCmd(s) == [k |-> "recv", s |-> s, calls |-> <<>>]
ExecCmd(calls) == [k |-> "exec", s |-> 0, calls |-> calls]

Msg(t, s, chunk, reasoning, calls, results, isNil) ==
    [t |-> t, s |-> s, chunk |-> chunk, reasoning |-> reasoning, calls |-> calls,
     results |-> results, isNil |-> isNil]

CheckStreamMsg(s) == Msg("CheckStreamMsg", s, <<>>, <<>>, <<>>, <<>>, FALSE)
StreamChunkMsg(s, chunk, reasoning) == Msg("StreamChunkMsg", s, chunk, reasoning, <<>>, <<>>, FALSE)
ToolCallMsg(s, calls) == Msg("ToolCallMsg", s, <<>>, <<>>, calls, <<>>, FALSE)
ToolResultMsg(results) == Msg("ToolResultMsg", 0, <<>>, <<>>, <<>>, results, FALSE)
StreamErrorMsg(s, isNil) == Msg("StreamErrorMsg", s, <<>>, <<>>, <<>>, <<>>, isNil)

One(x) == SetToBag({x})

\* the channels Model.streamCh, reasoningCh, toolCallCh, streamErrCh refer to
Current == Len(streams)

LoopInit ==
    /\ thinking = FALSE
    /\ currentResp = <<>>
    /\ pendingToolCalls = <<>>
    /\ apiMessages = <<>>
    /\ streams = <<>>
    /\ cmds = EmptyBag

\* tea.KeyEnter with a non-command input, and startStream
KeyEnter ==
    /\ ~thinking
    /\ Len(streams) < MaxStreams
    /\ Len(apiMessages) < MaxHistory
    /\ LET history == Append(apiMessages, TextMessage("user", <<"u">>))
       IN  /\ apiMessages' = history
           /\ streams' = Append(streams, NewStream(addSystemPromptIfNeeded(history)))
    /\ thinking' = TRUE
    /\ currentResp' = <<>>
    /\ cmds' = cmds (+) One(RecvCmd(Len(streams) + 1))
    /\ UNCHANGED pendingToolCalls
    /\ UNCHANGED otherThanLoop

\* tea.KeyEsc: cancel the context the open streams were started with
KeyEsc ==
    /\ thinking
    /\ thinking' = FALSE
    /\ streams' = [s \in DOMAIN streams |-> [streams[s] EXCEPT !.cancelled = TRUE]]
    /\ UNCHANGED <<currentResp, pendingToolCalls, apiMessages, cmds>>
    /\ UNCHANGED otherThanLoop

\* the goroutine that closes done once streamCtx is cancelled
CloseDone(s) ==
    /\ streams[s].cancelled
    /\ ~streams[s].done
    /\ streams[s].pc # "exited"
    /\ streams' = [streams EXCEPT ![s].done = TRUE]
    /\ UNCHANGED <<thinking, currentResp, pendingToolCalls, apiMessages, cmds>>
    /\ UNCHANGED otherThanLoop

\* a bounded-wait send: the value is dropped when the buffer stays full
TrySend(ch, cap, v) == IF Len(ch) < cap THEN Append(ch, v) ELSE ch

\* the onChunk callback of StreamChatWithChannel
onChunk(st, f) ==
    IF st.done THEN st
    ELSE [st EXCEPT
            !.chunkCh = IF f.content # <<>> THEN TrySend(@, ChunkChCap, f.content) ELSE @,
            !.reasoningCh = IF f.reasoning # <<>> THEN TrySend(@, ReasoningChCap, f.reasoning) ELSE @,
            !.toolCallCh = IF Len(f.toolCalls) > 0 THEN TrySend(@, ToolCallChCap, f.toolCalls) ELSE @]

RECURSIVE FramesRead(_)
FramesRead(ss) == IF ss = <<>> THEN 0 ELSE Len(Head(ss).frames) + FramesRead(Tail(ss))

\* StreamChat handing the delta of every frame to onChunk, decoded or not
ProducerFrameDeliverAll(s, f) ==
    /\ streams[s].pc = "run"
    /\ FramesRead(streams) < MaxFrames
    /\ streams' = [streams EXCEPT ![s] = onChunk([@ EXCEPT !.frames = Append(@, f)], f)]
    /\ UNCHANGED <<thinking, currentResp, pendingToolCalls, apiMessages, cmds>>
    /\ UNCHANGED otherThanLoop

\* StreamChat reads one data: frame
ProducerFrame(s, f) ==
    /\ streams[s].pc = "run"
    /\ FramesRead(streams) < MaxFrames
    /\ LET st == [streams[s] EXCEPT !.frames = Append(@, f)]
       IN  streams' = [streams EXCEPT ![s] = IF f.malformed THEN st ELSE onChunk(st, f)]
    /\ UNCHANGED <<thinking, currentResp, pendingToolCalls, apiMessages, cmds>>
    /\ UNCHANGED otherThanLoop

\* a response made of text deltas only, long enough to fill chunkCh
TextFrames == { f \in Frames : f.toolCalls = <<>> }

\* StreamChat reads one data: frame of such a response
ProducerTextFrame(s, f) ==
    /\ streams[s].pc = "run"
    /\ FramesRead(streams) < MaxTextFrames
    /\ streams' = [streams EXCEPT ![s] = onChunk([@ EXCEPT !.frames = Append(@, f)], f)]
    /\ UNCHANGED <<thinking, currentResp, pendingToolCalls, apiMessages, cmds>>
    /\ UNCHANGED otherThanLoop

\* StreamChat returns: nil after data: [DONE] or EOF, an error when the
\* request or a read fails.  Then the producer's final select (sentinel or
\* error, or done) and the deferred close of the four channels.
ProducerExit(s, ok, send) ==
    /\ streams[s].pc = "run"
    /\ IF send
       THEN IF ok
            THEN /\ Len(streams[s].chunkCh) < ChunkChCap
                 /\ streams' = [streams EXCEPT ![s].chunkCh = Append(@, <<>>),
                                               ![s].pc = "exited", ![s].closed = TRUE]
            ELSE /\ Len(streams[s].errCh) < ErrChCap
                 /\ streams' = [streams EXCEPT ![s].errCh = Append(@, "err"),
                                               ![s].pc = "exited", ![s].closed = TRUE]
       ELSE /\ streams[s].done
            /\ streams' = [streams EXCEPT ![s].pc = "exited", ![s].closed = TRUE]
    /\ UNCHANGED <<thinking, currentResp, pendingToolCalls, apiMessages, cmds>>
    /\ UNCHANGED otherThanLoop

\* the select of startStream / checkStream / continueStream: one receive from
\* a channel that is ready (a closed channel yields the zero value)
Ready(ch, closed) == Len(ch) > 0 \/ closed

Channels == {"chunk", "reasoning", "toolcall", "err"}

Chan(st, which) ==
    CASE which = "chunk" -> st.chunkCh
      [] which = "reasoning" -> st.reasoningCh
      [] which = "toolcall" -> st.toolCallCh
      [] which = "err" -> st.errCh

\* the message the closure returns when its select takes channel `which`
Received(c, which) ==
    LET st == streams[c.s]
        ch == Chan(st, which)
        zero == Len(ch) = 0
    IN  CASE which = "chunk" ->
               IF zero \/ Head(ch) = <<>> THEN CheckStreamMsg(c.s)
               ELSE StreamChunkMsg(c.s, Head(ch), <<>>)
          [] which = "reasoning" -> StreamChunkMsg(c.s, <<>>, IF zero THEN <<>> ELSE Head(ch))
          [] which = "toolcall" -> ToolCallMsg(c.s, IF zero THEN <<>> ELSE Head(ch))
          [] which = "err" -> StreamErrorMsg(c.s, zero)

\* the channels after that receive
AfterReceive(c, which) ==
    LET pop(ch) == IF Len(ch) > 0 THEN Tail(ch) ELSE ch
    IN  CASE which = "chunk" -> [streams EXCEPT ![c.s].chunkCh = pop(@)]
          [] which = "reasoning" -> [streams EXCEPT ![c.s].reasoningCh = pop(@)]
          [] which = "toolcall" -> [streams EXCEPT ![c.s].toolCallCh = pop(@)]
          [] which = "err" -> [streams EXCEPT ![c.s].errCh = pop(@)]

\* closure c finishes its select on channel `which` with a message of type t
Receives(c, which, t) ==
    /\ BagIn(c, cmds)
    /\ c.k = "recv"
    /\ Ready(Chan(streams[c.s], which), streams[c.s].closed)
    /\ Received(c, which).t = t

\* Update, case CheckStreamMsg
UpdateCheckStream(c, which) ==
    /\ Receives(c, which, "CheckStreamMsg")
    /\ Len(apiMessages) < MaxHistory
    /\ streams' = AfterReceive(c, which)
    /\ IF Len(pendingToolCalls) > 0
       THEN /\ cmds' = (cmds (-) One(c)) (+) One(ExecCmd(pendingToolCalls))
            /\ UNCHANGED <<thinking, currentResp, apiMessages>>
       ELSE /\ thinking' = FALSE
            /\ cmds' = cmds (-) One(c)
            /\ IF currentResp # <<>>
               THEN /\ apiMessages' = Append(apiMessages, TextMessage("assistant", currentResp))
                    /\ currentResp' = <<>>
               ELSE UNCHANGED <<apiMessages, currentResp>>
    /\ UNCHANGED pendingToolCalls
    /\ UNCHANGED otherThanLoop

\* Update, case StreamChunkMsg, and checkStream
UpdateStreamChunk(c, which) ==
    /\ Receives(c, which, "StreamChunkMsg")
    /\ LET m == Received(c, which)
       IN  currentResp' = IF m.reasoning # <<>> THEN currentResp ELSE currentResp \o m.chunk
    /\ streams' = AfterReceive(c, which)
    /\ cmds' = (cmds (-) One(c)) (+) One(RecvCmd(Current))
    /\ UNCHANGED <<thinking, pendingToolCalls, apiMessages>>
    /\ UNCHANGED otherThanLoop

\* Update, case ToolCallMsg, and checkStream
UpdateToolCall(c, which) ==
    /\ Receives(c, which, "ToolCallMsg")
    /\ Len(apiMessages) < MaxHistory
    /\ LET m == Received(c, which)
       IN  /\ pendingToolCalls' = pendingToolCalls \o m.calls
           /\ apiMessages' = Append(apiMessages, ToolCallMessage(m.calls))
    /\ streams' = AfterReceive(c, which)
    /\ cmds' = (cmds (-) One(c)) (+) One(RecvCmd(Current))
    /\ UNCHANGED <<thinking, currentResp>>
    /\ UNCHANGED otherThanLoop

\* Update, case StreamErrorMsg
UpdateStreamError(c, which) ==
    /\ Receives(c, which, "StreamErrorMsg")
    /\ streams' = AfterReceive(c, which)
    /\ cmds' = cmds (-) One(c)
    /\ thinking' = FALSE
    /\ UNCHANGED <<currentResp, pendingToolCalls, apiMessages>>
    /\ UNCHANGED otherThanLoop

\* the closure of executePendingTools, then Update, case ToolResultMsg, and
\* continueStream
UpdateToolResult(c, outcomes) ==
    /\ BagIn(c, cmds)
    /\ c.k = "exec"
    /\ Len(c.calls) > 0
    /\ Len(streams) < MaxStreams
    /\ LET m == ToolResultMsg(HandleToolCalls(c.calls, outcomes))
           history == apiMessages \o m.results
       IN  /\ Len(history) <= MaxHistory
           /\ apiMessages' = history
           /\ streams' = Append(streams, NewStream(history))
    /\ pendingToolCalls' = <<>>
    /\ thinking' = TRUE
    /\ currentResp' = <<>>
    /\ cmds' = (cmds (-) One(c)) (+) One(RecvCmd(Len(streams) + 1))
    /\ UNCHANGED otherThanLoop

\* outcomes of the tools of one batch
LoopOutcomes(n) == [1..n -> {"ok", "fail"}]

LoopNext ==
    \/ KeyEnter
    \/ KeyEsc
    \/ \E s \in DOMAIN streams : CloseDone(s)
    \/ \E s \in DOMAIN streams : \E f \in Frames : ProducerFrame(s, f)
    \/ \E s \in DOMAIN streams : \E ok \in BOOLEAN, send \in BOOLEAN : ProducerExit(s, ok, send)
    \/ \E c \in BagToSet(cmds) : \E which \in Channels : UpdateCheckStream(c, which)
    \/ \E c \in BagToSet(cmds) : \E which \in Channels : UpdateStreamChunk(c, which)
    \/ \E c \in BagToSet(cmds) : \E which \in Channels : UpdateToolCall(c, which)
    \/ \E c \in BagToSet(cmds) : \E which \in Channels : UpdateStreamError(c, which)
    \/ \E c \in BagToSet(cmds) : \E o \in LoopOutcomes(Len(c.calls)) : UpdateToolResult(c, o)

\* the Loop fed responses of text deltas only, Esc never pressed
TextNext ==
    \/ KeyEnter
    \/ \E s \in DOMAIN streams : \E f \in TextFrames : ProducerTextFrame(s, f)
    \/ \E s \in DOMAIN streams : \E ok \in BOOLEAN : ProducerExit(s, ok, TRUE)
    \/ \E c \in BagToSet(cmds) : \E which \in Channels : UpdateCheckStream(c, which)
    \/ \E c \in BagToSet(cmds) : \E which \in Channels : UpdateStreamChunk(c, which)
    \/ \E c \in BagToSet(cmds) : \E which \in Channels : UpdateToolCall(c, which)
    \/ \E c \in BagToSet(cmds) : \E which \in Channels : UpdateStreamError(c, which)

\* the response of the run of one tool call: the first stream carries one
\* frame with one tool call, the stream of the continuation one text frame
RunFrames(s) == IF s = 1 THEN Frames \ TextFrames ELSE TextFrames

\* the Loop in that run: one user message, both responses ending with
\* data: [DONE], Esc never pressed
RunNext ==
    \/ streams = <<>> /\ KeyEnter
    \/ \E s \in DOMAIN streams : \E f \in RunFrames(s) :
         streams[s].frames = <<>> /\ ProducerFrame(s, f)
    \/ \E s \in DOMAIN streams : Len(streams[s].frames) = 1 /\ ProducerExit(s, TRUE, TRUE)
    \/ \E c \in BagToSet(cmds) : \E which \in Channels : UpdateCheckStream(c, which)
    \/ \E c \in BagToSet(cmds) : \E which \in Channels : UpdateStreamChunk(c, which)
    \/ \E c \in BagToSet(cmds) : \E which \in Channels : UpdateToolCall(c, which)
    \/ \E c \in BagToSet(cmds) : \E which \in Channels : UpdateStreamError(c, which)
    \/ \E c \in BagToSet(cmds) : \E o \in LoopOutcomes(Len(c.calls)) : UpdateToolResult(c, o)

\* a data: frame cut before the end of its JSON payload
MalformedFrames == { Frame(<<"a">>, <<>>, <<>>, TRUE) }

\* the Loop fed responses in which such frames occur, Esc never pressed
DecodeNext ==
    \/ KeyEnter
    \/ \E s \in DOMAIN streams : \E f \in Frames \cup MalformedFrames : ProducerFrame(s, f)
    \/ \E s \in DOMAIN streams : \E ok \in BOOLEAN : ProducerExit(s, ok, TRUE)
    \/ \E c \in BagToSet(cmds) : \E which \in Channels : UpdateCheckStream(c, which)
    \/ \E c \in BagToSet(cmds) : \E which \in Channels : UpdateStreamChunk(c, which)
    \/ \E c \in BagToSet(cmds) : \E which \in Channels : UpdateToolCall(c, which)
    \/ \E c \in BagToSet(cmds) : \E which \in Channels : UpdateStreamError(c, which)
    \/ \E c \in BagToSet(cmds) : \E o \in LoopOutcomes(Len(c.calls)) : UpdateToolResult(c, o)

\* one response of text deltas that the upstream ends with data: [DONE]
ProducerNext ==
    \/ streams = <<>> /\ KeyEnter
    \/ \E s \in DOMAIN streams : \E f \in TextFrames : ProducerTextFrame(s, f)
    \/ \E s \in DOMAIN streams : ProducerExit(s, TRUE, TRUE)
    \/ \E c \in BagToSet(cmds) : \E which \in Channels : UpdateCheckStream(c, which)
    \/ \E c \in BagToSet(cmds) : \E which \in Channels : UpdateStreamChunk(c, which)
    \/ \E c \in BagToSet(cmds) : \E which \in Channels : UpdateToolCall(c, which)
    \/ \E c \in BagToSet(cmds) : \E which \in Channels : UpdateStreamError(c, which)

\* the producer goroutine is scheduled and the upstream ends its response:
\* StreamChat returns and the send of the sentinel completes as soon as it
\* can.  Nothing is assumed of the consumer, which may stop reading.
ProducerFairness == WF_vars(\E s \in DOMAIN streams : ProducerExit(s, TRUE, TRUE))

\* one user message, then Esc at any time
CancelNext ==
    \/ streams = <<>> /\ KeyEnter
    \/ KeyEsc
    \/ \E s \in DOMAIN streams : CloseDone(s)
    \/ \E s \in DOMAIN streams : \E f \in Frames : ProducerFrame(s, f)
    \/ \E s \in DOMAIN streams : \E ok \in BOOLEAN, send \in BOOLEAN : ProducerExit(s, ok, send)
    \/ \E c \in BagToSet(cmds) : \E which \in Channels : UpdateCheckStream(c, which)
    \/ \E c \in BagToSet(cmds) : \E which \in Channels : UpdateStreamChunk(c, which)
    \/ \E c \in BagToSet(cmds) : \E which \in Channels : UpdateToolCall(c, which)
    \/ \E c \in BagToSet(cmds) : \E which \in Channels : UpdateStreamError(c, which)
    \/ \E c \in BagToSet(cmds) : \E o \in LoopOutcomes(Len(c.calls)) : UpdateToolResult(c, o)

\* the goroutines of the program are scheduled: done is closed once the
\* context is cancelled, and a closure whose select is ready returns.
\* Nothing is assumed of the upstream: a frame, the end of the response or
\* a read error may never come.
CancelFairness ==
    /\ WF_vars(\E s \in DOMAIN streams : CloseDone(s))
    /\ WF_vars(\E c \in BagToSet(cmds) : \E which \in Channels : UpdateCheckStream(c, which))
    /\ WF_vars(\E c \in BagToSet(cmds) : \E which \in Channels : UpdateStreamError(c, which))

-----------------------------------------------------------------------------
(* ToolManager.HandleToolCalls on its own: the loop over the calls, one    *)
(* iteration a step.                                                       *)

\* arguments as the upstream can send them: absent, an object, a string
\* holding an object, a string holding a truncated object, a number
ArgumentForms ==
    { <<>>, <<"{", "}">>, Quote(<<"{", "}">>), Quote(<<"{">>), <<"5">> }

CallInputs ==
    { ToolCall(id, "read_file", a) : id \in {"c1", "c2"}, a \in ArgumentForms }

SeqsUpTo(S, n) == UNION { [1..k -> S] : k \in 0..n }

HtcIdle ==
    htc = [pc |-> "idle", calls |-> <<>>, outcomes |-> <<>>, i |-> 1,
           messages |-> <<>>, dispatched |-> <<>>, ret |-> <<>>]

\* the first response of a run carries one delta with a batch of two tool
\* calls, their arguments in any of the forms the upstream can send
BatchFrames ==
    { Frame(<<>>, <<>>, <<ToolCall("c1", "read_file", a1), ToolCall("c2", "read_file", a2)>>,
            FALSE) : a1 \in ArgumentForms, a2 \in ArgumentForms }

\* the Loop in that run: one user message, both responses ending with
\* data: [DONE], Esc never pressed
BatchNext ==
    \/ streams = <<>> /\ KeyEnter
    \/ \E f \in BatchFrames : streams # <<>> /\ streams[1].frames = <<>> /\ ProducerFrame(1, f)
    \/ \E f \in TextFrames :
         Len(streams) = 2 /\ streams[2].frames = <<>> /\ ProducerFrame(2, f)
    \/ \E s \in DOMAIN streams : Len(streams[s].frames) = 1 /\ ProducerExit(s, TRUE, TRUE)
    \/ \E c \in BagToSet(cmds) : \E which \in Channels : UpdateCheckStream(c, which)
    \/ \E c \in BagToSet(cmds) : \E which \in Channels : UpdateStreamChunk(c, which)
    \/ \E c \in BagToSet(cmds) : \E which \in Channels : UpdateToolCall(c, which)
    \/ \E c \in BagToSet(cmds) : \E which \in Channels : UpdateStreamError(c, which)
    \/ \E c \in BagToSet(cmds) : \E o \in LoopOutcomes(Len(c.calls)) : UpdateToolResult(c, o)

HtcInit ==
    \E calls \in SeqsUpTo(CallInputs, MaxCalls) :
      \E outcomes \in [1..Len(calls) -> ToolOutcomes] :
        htc = [pc |-> "loop", calls |-> calls, outcomes |-> outcomes, i |-> 1,
               messages |-> <<>>, dispatched |-> <<>>, ret |-> <<>>]

\* one iteration of `for _, toolCall := range toolCalls`; a panic that left
\* executeToolCall would unwind the loop and its callers
HtcStep ==
    /\ htc.pc = "loop"
    /\ htc.i <= Len(htc.calls)
    /\ htc' = IF executeToolCall(htc.calls[htc.i], htc.outcomes[htc.i]).panic
               THEN [htc EXCEPT !.pc = "panicked",
                                !.dispatched = Append(@, htc.calls[htc.i].id)]
               ELSE [htc EXCEPT
                       !.messages = HandleToolCallsIter(@, htc.calls[htc.i], htc.outcomes[htc.i]),
                       !.dispatched = Append(@, htc.calls[htc.i].id),
                       !.i = @ + 1]
    /\ UNCHANGED otherThanHtc

\* return messages, nil
HtcReturn ==
    /\ htc.pc = "loop"
    /\ htc.i > Len(htc.calls)
    /\ htc' = [htc EXCEPT !.pc = "returned", !.ret = htc.messages]
    /\ UNCHANGED otherThanHtc

HtcNext == HtcStep \/ HtcReturn

-----------------------------------------------------------------------------
(* Paths.  A path string is a flag for the leading separator and a list of   *)
(* components; a component is a list of tokens, so that "w2" has "w" as a    *)
(* string prefix and "f.tmp" is "f" followed by an extension.                *)

Dot == <<".">>
DotDot == <<"..">>

Path(abs, comps) == [abs |-> abs, comps |-> comps]

Parent(a) == IF a = <<>> THEN <<>> ELSE SubSeq(a, 1, Len(a) - 1)

\* filepath.Clean: "." dropped, ".." removes the component before it
RECURSIVE CleanFrom(_, _, _)
CleanFrom(abs, done, rest) ==
    IF rest = <<>> THEN done
    ELSE LET c == Head(rest)
         IN  IF c = Dot THEN CleanFrom(abs, done, Tail(rest))
             ELSE IF c = DotDot
               THEN IF done = <<>>
                      THEN CleanFrom(abs, IF abs THEN <<>> ELSE <<DotDot>>, Tail(rest))
                    ELSE IF Last(done) = DotDot
                      THEN CleanFrom(abs, Append(done, DotDot), Tail(rest))
                    ELSE CleanFrom(abs, Parent(done), Tail(rest))
             ELSE CleanFrom(abs, Append(done, c), Tail(rest))

Clean(p) == Path(p.abs, CleanFrom(p.abs, <<>>, p.comps))

\* the working directory of the process, which is also the allowed root
Cwd == << <<"w">> >>

\* filepath.Abs: join with the working directory, then Clean
Abs(p) == CleanFrom(TRUE, <<>>, IF p.abs THEN p.comps ELSE Cwd \o p.comps)

\* filepath.Join(dir, name)
Join(dir, name) == Clean(Path(dir.abs, Append(dir.comps, name)))

\* filepath.Dir and filepath.Base
Dir(p) == Clean(Path(p.abs, Parent(p.comps)))
Base(p) == IF p.comps = <<>> THEN Dot ELSE Last(p.comps)

\* path + suffix
AddSuffix(p, suffix) ==
    Path(p.abs, [p.comps EXCEPT ![Len(p.comps)] = Append(@, suffix)])

\* the absolute path as a string: tokens with separators
PathString(a) ==
    IF a = <<>> THEN <<"/">>
    ELSE Flatten([i \in 1..Len(a) |-> <<"/">> \o a[i]])

\* the path string as given by the caller
RawString(p) ==
    IF p.comps = <<>> THEN IF p.abs THEN <<"/">> ELSE <<>>
    ELSE LET s == Flatten([i \in 1..Len(p.comps) |-> <<"/">> \o p.comps[i]])
         IN  IF p.abs THEN s ELSE Tail(s)

\* strings.HasPrefix
HasPrefix(s, prefix) ==
    Len(prefix) <= Len(s) /\ SubSeq(s, 1, Len(prefix)) = prefix

ExtTokens == {".tmp", ".exe", ".backup"}

\* filepath.Ext of an absolute path
Ext(a) ==
    IF a = <<>> THEN ""
    ELSE IF Last(a) # <<>> /\ Last(Last(a)) \in ExtTokens THEN Last(Last(a))
    ELSE ""

\* filepath.Rel(root, a), both absolute and clean
RECURSIVE Rel(_, _)
Rel(root, a) ==
    IF root = <<>> THEN a
    ELSE IF a # <<>> /\ Head(a) = Head(root) THEN Rel(Tail(root), Tail(a))
    ELSE [i \in 1..Len(root) |-> DotDot] \o a

-----------------------------------------------------------------------------
(* The filesystem: a map from resolved absolute paths to nodes.  The root    *)
(* directory is always there and is not in the map.                          *)

File(content) == [kind |-> "file", content |-> content, target |-> <<>>]
Directory == [kind |-> "dir", content |-> <<>>, target |-> <<>>]
Symlink(target) == [kind |-> "link", content |-> <<>>, target |-> target]

Put(f, a, node) == [x \in DOMAIN f \cup {a} |-> IF x = a THEN node ELSE f[x]]
Del(f, S) == [x \in DOMAIN f \ S |-> f[x]]
IsUnder(a, r) == Len(r) <= Len(a) /\ SubSeq(a, 1, Len(r)) = r
Subtree(f, a) == { x \in DOMAIN f : IsUnder(x, a) }

MaxLinks == 3        \* symlinks followed in one resolution before ELOOP

Resolved(err, a, exists) == [err |-> err, path |-> a, exists |-> exists]

\* kernel path resolution from directory cur; the last component may be
\* missing, and is followed if it is a symlink only when followLast
RECURSIVE Namei(_, _, _, _, _)
Namei(f, cur, rest, followLast, budget) ==
    IF rest = <<>> THEN Resolved("", cur, TRUE)
    ELSE LET c == Head(rest)
             more == Tail(rest)
             next == Append(cur, c)
         IN  IF c = Dot THEN Namei(f, cur, more, followLast, budget)
             ELSE IF c = DotDot THEN Namei(f, Parent(cur), more, followLast, budget)
             ELSE IF next \notin DOMAIN f
               THEN IF more = <<>> THEN Resolved("", next, FALSE)
                    ELSE Resolved("ENOENT", next, FALSE)
             ELSE IF f[next].kind = "link" /\ (more # <<>> \/ followLast)
               THEN IF budget = 0 THEN Resolved("ELOOP", next, FALSE)
                    ELSE Namei(f, <<>>, f[next].target \o more, followLast, budget - 1)
             ELSE IF f[next].kind = "file" /\ more # <<>>
               THEN Resolved("ENOTDIR", next, FALSE)
             ELSE Namei(f, next, more, followLast, budget)

\* the components the kernel walks for a path string
OSPath(p) == IF p.abs THEN p.comps ELSE Cwd \o p.comps

Lookup(f, p) == Namei(f, <<>>, OSPath(p), TRUE, MaxLinks)
LLookup(f, p) == Namei(f, <<>>, OSPath(p), FALSE, MaxLinks)

KindAt(f, a) == IF a = <<>> THEN "dir" ELSE f[a].kind

ErrOf(r) == IF r.err # "" THEN r.err ELSE IF ~r.exists THEN "ENOENT" ELSE ""

\* os.IsNotExist
IsNotExist(err) == err = "ENOENT"

\* filepath.EvalSymlinks of a clean absolute path
EvalSymlinks(f, a) ==
    LET r == Namei(f, <<>>, a, TRUE, MaxLinks)
    IN  [err |-> ErrOf(r), path |-> r.path]

\* os.Stat
osStat(f, p) ==
    LET r == Lookup(f, p)
    IN  IF ErrOf(r) # "" THEN [err |-> ErrOf(r), isDir |-> FALSE, size |-> 0]
        ELSE [err |-> "", isDir |-> KindAt(f, r.path) = "dir",
              size |-> IF KindAt(f, r.path) = "dir" THEN 0 ELSE Len(f[r.path].content)]

\* os.ReadFile
osReadFile(f, p) ==
    LET r == Lookup(f, p)
    IN  IF ErrOf(r) # "" THEN [err |-> ErrOf(r), content |-> <<>>]
        ELSE IF KindAt(f, r.path) = "dir" THEN [err |-> "EISDIR", content |-> <<>>]
        ELSE [err |-> "", content |-> f[r.path].content]

\* the open(O_WRONLY|O_CREATE|O_TRUNC) of os.WriteFile: the file is there and empty
osCreate(f, p) ==
    LET r == Lookup(f, p)
    IN  IF r.err # "" THEN [err |-> r.err, fs |-> f, file |-> <<>>]
        ELSE IF r.exists /\ KindAt(f, r.path) = "dir"
          THEN [err |-> "EISDIR", fs |-> f, file |-> <<>>]
        ELSE [err |-> "", fs |-> Put(f, r.path, File(<<>>)), file |-> r.path]

\* os.WriteFile run to its end
osWriteFile(f, p, content) ==
    LET o == osCreate(f, p)
    IN  IF o.err # "" THEN [err |-> o.err, fs |-> f]
        ELSE [err |-> "", fs |-> Put(f, o.file, File(content))]

\* os.Rename
osRename(f, src, dst) ==
    LET s == LLookup(f, src)
        d == LLookup(f, dst)
    IN  IF ErrOf(s) # "" THEN [err |-> ErrOf(s), fs |-> f]
        ELSE IF d.err # "" THEN [err |-> d.err, fs |-> f]
        ELSE IF s.path = <<>> \/ d.path = <<>> THEN [err |-> "EBUSY", fs |-> f]
        ELSE IF s.path = d.path THEN [err |-> "", fs |-> f]
        ELSE IF IsUnder(d.path, s.path) THEN [err |-> "EINVAL", fs |-> f]
        ELSE IF d.exists /\ f[d.path].kind = "dir" /\ f[s.path].kind # "dir"
          THEN [err |-> "EISDIR", fs |-> f]
        ELSE IF d.exists /\ f[d.path].kind # "dir" /\ f[s.path].kind = "dir"
          THEN [err |-> "ENOTDIR", fs |-> f]
        ELSE IF d.exists /\ Subtree(f, d.path) # {d.path}
          THEN [err |-> "ENOTEMPTY", fs |-> f]
        ELSE LET moved == Subtree(f, s.path)
                 to(x) == d.path \o SubSeq(x, Len(s.path) + 1, Len(x))
                 kept == DOMAIN f \ (moved \cup {d.path})
             IN  [err |-> "",
                  fs |-> [y \in kept \cup { to(x) : x \in moved } |->
                            IF y \in kept THEN f[y]
                            ELSE f[CHOOSE x \in moved : to(x) = y]]]

\* os.Remove
osRemove(f, p) ==
    LET r == LLookup(f, p)
    IN  IF ErrOf(r) # "" THEN [err |-> ErrOf(r), fs |-> f]
        ELSE IF r.path = <<>> THEN [err |-> "EBUSY", fs |-> f]
        ELSE IF Subtree(f, r.path) # {r.path} THEN [err |-> "ENOTEMPTY", fs |-> f]
        ELSE [err |-> "", fs |-> Del(f, {r.path})]

\* os.RemoveAll
osRemoveAll(f, p) ==
    LET r == LLookup(f, p)
    IN  IF r.err = "ENOTDIR" THEN [err |-> r.err, fs |-> f]
        ELSE IF ErrOf(r) # "" THEN [err |-> "", fs |-> f]
        ELSE IF r.path = <<>> THEN [err |-> "EBUSY", fs |-> f]
        ELSE [err |-> "", fs |-> Del(f, Subtree(f, r.path))]

\* os.MkdirAll
RECURSIVE MkdirAllFrom(_, _)
MkdirAllFrom(f, comps) ==
    LET r == Namei(f, <<>>, comps, TRUE, MaxLinks)
    IN  IF r.err = "" /\ r.exists
          THEN IF KindAt(f, r.path) = "dir" THEN [err |-> "", fs |-> f]
               ELSE [err |-> "ENOTDIR", fs |-> f]
        ELSE IF r.err = "" THEN [err |-> "", fs |-> Put(f, r.path, Directory)]
        ELSE IF r.err # "ENOENT" \/ comps = <<>> THEN [err |-> r.err, fs |-> f]
        ELSE LET up == MkdirAllFrom(f, Parent(comps))
             IN  IF up.err # "" THEN up ELSE MkdirAllFrom(up.fs, comps)

osMkdirAll(f, p) == MkdirAllFrom(f, OSPath(p))

\* os.ReadDir: the entries of the directory (Go returns them sorted by name)
osReadDir(f, p) ==
    LET r == Lookup(f, p)
    IN  IF ErrOf(r) # "" THEN [err |-> ErrOf(r), entries |-> {}]
        ELSE IF KindAt(f, r.path) # "dir" THEN [err |-> "ENOTDIR", entries |-> {}]
        ELSE [err |-> "",
              entries |-> { [name |-> Last(x), isDir |-> f[x].kind = "dir"] :
                            x \in { y \in DOMAIN f : Len(y) = Len(r.path) + 1
                                                    /\ IsUnder(y, r.path) } }]

-----------------------------------------------------------------------------
(* FileEngine (internal/mcp/file_engine.go) *)

\* the engine's configuration as NewToolManager builds it
AllowedRoots == { Path(TRUE, Cwd) }
BlacklistedExts == {".exe", ".dll", ".so", ".dylib", ".bin"}
MaxFileSize == 2     \* config.MaxFileSize, in tokens of content
BackupDir == Path(FALSE, << <<".polyagent-backups">> >>)

CacheMaxSize == 100
CacheTTL == 5        \* minutes; the clock counts minutes

EmptyCache == [x \in {} |-> [content |-> <<>>, time |-> 0]]

\* fileCache.get with an entry expiring as soon as it is TTL old
cacheGetExpiresAtTTL(c, t, p) ==
    IF p \notin DOMAIN c THEN [hit |-> FALSE, content |-> <<>>]
    ELSE IF t - c[p].time >= CacheTTL THEN [hit |-> FALSE, content |-> <<>>]
    ELSE [hit |-> TRUE, content |-> c[p].content]

\* fileCache.get
cacheGet(c, t, p) ==
    IF p \notin DOMAIN c THEN [hit |-> FALSE, content |-> <<>>]
    ELSE IF t - c[p].time > CacheTTL THEN [hit |-> FALSE, content |-> <<>>]
    ELSE [hit |-> TRUE, content |-> c[p].content]

\* fileCache.cleanup: the entries are sorted by time and the first
\* itemCount - maxSize/2 are deleted; entries of equal time are sorted in any
\* order, so of those at the time of the last one deleted any may go
cacheCleanup(c) ==
    LET itemCount == Cardinality(DOMAIN c)
        targetSize == CacheMaxSize \div 2
        deleteCount == itemCount - targetSize
        upTo(t) == { k \in DOMAIN c : c[k].time <= t }
        last == CHOOSE t \in { c[k].time : k \in DOMAIN c } :
                  /\ Cardinality(upTo(t)) >= deleteCount
                  /\ Cardinality(upTo(t - 1)) < deleteCount
        older == upTo(last - 1)
    IN  IF itemCount <= targetSize THEN {c}
        ELSE { Del(c, older \cup E) : E \in { T \in SUBSET (upTo(last) \ older) :
                 Cardinality(T) = deleteCount - Cardinality(older) } }

\* fileCache.set that never cleans up
cacheSetNoCleanup(c, t, p, content) == { Put(c, p, [content |-> content, time |-> t]) }

\* fileCache.set: the caches it can leave
cacheSet(c, t, p, content) ==
    { Put(c1, p, [content |-> content, time |-> t]) :
        c1 \in IF Cardinality(DOMAIN c) >= CacheMaxSize THEN cacheCleanup(c) ELSE {c} }

\* FileEngine.ValidatePath: "" or the kind of the error
ValidatePath(f, p) ==
    LET absPath == Abs(p)
        ev == EvalSymlinks(f, absPath)
        realPath == IF ev.err = "" THEN ev.path ELSE absPath
    IN  IF ev.err # "" /\ ~IsNotExist(ev.err) THEN "EvalSymlinksFailed"
        ELSE IF ~\E root \in AllowedRoots :
                   HasPrefix(PathString(realPath), PathString(Abs(root)))
          THEN "PathNotAllowed"
        ELSE IF Ext(realPath) \in BlacklistedExts THEN "TypeNotAllowed"
        ELSE ""

\* ReadFile returning the first MaxFileSize tokens of an oversized file
ReadFileTruncating(f, c, t, p, forceRefresh) ==
    LET v == ValidatePath(f, p)
        g == cacheGet(c, t, p)
        info == osStat(f, p)
        rd == osReadFile(f, p)
    IN  IF v # "" THEN [err |-> v, content |-> <<>>, store |-> FALSE]
        ELSE IF ~forceRefresh /\ g.hit
          THEN [err |-> "", content |-> g.content, store |-> FALSE]
        ELSE IF info.err # "" THEN [err |-> info.err, content |-> <<>>, store |-> FALSE]
        ELSE IF rd.err # "" THEN [err |-> rd.err, content |-> <<>>, store |-> FALSE]
        ELSE IF info.size > MaxFileSize
          THEN [err |-> "", content |-> SubSeq(rd.content, 1, MaxFileSize), store |-> FALSE]
        ELSE [err |-> "", content |-> rd.content, store |-> TRUE]

\* FileEngine.ReadFile: the error, the content returned, and whether the
\* content is stored in the cache
ReadFile(f, c, t, p, forceRefresh) ==
    LET v == ValidatePath(f, p)
        g == cacheGet(c, t, p)
        info == osStat(f, p)
        rd == osReadFile(f, p)
    IN  IF v # "" THEN [err |-> v, content |-> <<>>, store |-> FALSE]
        ELSE IF ~forceRefresh /\ g.hit
          THEN [err |-> "", content |-> g.content, store |-> FALSE]
        ELSE IF info.err # "" THEN [err |-> info.err, content |-> <<>>, store |-> FALSE]
        ELSE IF info.size > MaxFileSize
          THEN [err |-> "FileTooLarge", content |-> <<>>, store |-> FALSE]
        ELSE IF rd.err # "" THEN [err |-> rd.err, content |-> <<>>, store |-> FALSE]
        ELSE [err |-> "", content |-> rd.content, store |-> TRUE]

\* time.Now().Format("20060102-150405")
Timestamp(t) == ToString(t)

\* the name createBackup gives the record: base, hash of the path string
\* (one hash per path string), timestamp
BackupName(p, t) ==
    Base(p) \o <<"-">> \o RawString(p) \o <<"-", Timestamp(t), ".backup">>

\* createBackup that reports success without writing a record
createBackupSkipped(f, t, p) == [err |-> "", fs |-> f]

\* FileEngine.createBackup
createBackup(f, t, p) ==
    LET rd == osReadFile(f, p)
        mk == osMkdirAll(f, BackupDir)
    IN  IF IsNotExist(rd.err) THEN [err |-> "", fs |-> f]
        ELSE IF rd.err # "" THEN [err |-> rd.err, fs |-> f]
        ELSE IF mk.err # "" THEN [err |-> mk.err, fs |-> f]
        ELSE osWriteFile(mk.fs, Join(BackupDir, BackupName(p, t)), rd.content)

\* a variant of the temporary file's name: the target itself
TempFileInPlace(p) == p

\* tempFile := path + ".tmp"
TempFile(p) == AddSuffix(p, ".tmp")

-----------------------------------------------------------------------------
(* FileWalker (internal/mcp/file_engine.go 199-275) *)

\* a glob pattern is a list of tokens: "*" stands for any run of tokens of
\* one name, "[" opens a character class that is never closed
RECURSIVE Glob(_, _)
Glob(pattern, name) ==
    IF pattern = <<>> THEN name = <<>>
    ELSE IF Head(pattern) = "*"
      THEN \E k \in 0..Len(name) : Glob(Tail(pattern), SubSeq(name, k + 1, Len(name)))
    ELSE name # <<>> /\ Head(name) = Head(pattern) /\ Glob(Tail(pattern), Tail(name))

\* filepath.Match
Match(pattern, name) ==
    IF \E i \in 1..Len(pattern) : pattern[i] = "["
    THEN [matched |-> FALSE, err |-> "ErrBadPattern"]
    ELSE [matched |-> Glob(pattern, name), err |-> ""]

\* NewFileWalker and SetMaxDepth
FileWalker(root, include, exclude, maxDepth) ==
    [root |-> root, include |-> include, exclude |-> exclude, maxDepth |-> maxDepth]

\* strings.Count(relPath, separator), less one for a directory
WalkDepth(w, p, isDir) ==
    LET relPath == Rel(Abs(w.root), Abs(p))
        depth == IF relPath = <<>> THEN 0 ELSE Len(relPath) - 1
    IN  IF isDir THEN depth - 1 ELSE depth

\* the include and exclude patterns applied to filepath.Base(path)
WalkFilters(w, p) ==
    LET inc == Match(w.include, Base(p))
        exc == Match(w.exclude, Base(p))
    IN  /\ (w.include # <<>> /\ w.include # <<"*">>) => (inc.err = "" /\ inc.matched)
        /\ w.exclude # <<>> => ~(exc.err = "" /\ exc.matched)

\* the names in directory a
DirNames(f, a) == { Last(x) : x \in { y \in DOMAIN f : y # <<>> /\ Parent(y) = a } }

\* the walk from path p on, ValidatePath never consulted
RECURSIVE WalkFromUnvalidated(_, _, _)
WalkFromUnvalidated(f, w, p) ==
    LET a == LLookup(f, p).path
        isDir == KindAt(f, a) = "dir"
        tooDeep == w.maxDepth >= 0 /\ WalkDepth(w, p, isDir) > w.maxDepth
    IN  IF isDir
          THEN IF tooDeep THEN {}
               ELSE UNION { WalkFromUnvalidated(f, w, Join(p, name)) : name \in DirNames(f, a) }
        ELSE IF tooDeep THEN {}
        ELSE IF ~WalkFilters(w, p) THEN {}
        ELSE {p}

\* filepath.Walk from path p on with the function Walk gives it: the paths
\* the callback fn is invoked on.  The entries are taken with Lstat, so a
\* symlink is an entry that is not a directory.
RECURSIVE WalkFrom(_, _, _)
WalkFrom(f, w, p) ==
    LET a == LLookup(f, p).path
        isDir == KindAt(f, a) = "dir"
        tooDeep == w.maxDepth >= 0 /\ WalkDepth(w, p, isDir) > w.maxDepth
    IN  IF isDir
          THEN IF tooDeep THEN {}
               ELSE UNION { WalkFrom(f, w, Join(p, name)) : name \in DirNames(f, a) }
        ELSE IF tooDeep THEN {}
        ELSE IF ValidatePath(f, p) # "" THEN {}
        ELSE IF ~WalkFilters(w, p) THEN {}
        ELSE {p}

\* FileWalker.Walk with a callback that returns nil: the error and the paths
\* the callback was invoked on
Walk(f, w) ==
    LET r == LLookup(f, w.root)
    IN  IF ErrOf(r) # "" THEN [err |-> ErrOf(r), called |-> {}]
        ELSE [err |-> "", called |-> WalkFrom(f, w, w.root)]

-----------------------------------------------------------------------------
(* Operations on the file engine and the file tools, one at a time *)

MaxOps == 2          \* operations in one run
MaxClock == 6        \* minutes the clock advances in one run

Op(kind, p, p2, content, flag, pc, err, n, f0) ==
    [kind |-> kind, path |-> p, path2 |-> p2, content |-> content, flag |-> flag,
     pc |-> pc, err |-> err, out |-> <<>>, listing |-> {}, tmp |-> <<>>,
     written |-> 0, n |-> n, fs0 |-> f0, cache0 |-> cache]

NoPath == Path(FALSE, <<>>)

InitialFS ==
    LET w == <<"w">>  w2 == <<"w", "2">>  o == <<"o">>
        f == <<"f">>  l == <<"l">>
    IN  Put(Put(Put(Put(Put(Put(Put([x \in {} |-> Directory],
          <<w>>, Directory),
          <<w, f>>, File(<<"a", "b">>)),
          <<w, l>>, Symlink(<<o>>)),
          <<w2>>, Directory),
          <<w2, f>>, File(<<"s">>)),
          <<o>>, Directory),
          <<o, f>>, File(<<"s">>))

\* the path strings given to the operations
FePaths ==
    LET w == <<"w">>  w2 == <<"w", "2">>  o == <<"o">>
        f == <<"f">>  l == <<"l">>  n == <<"n">>
    IN  { Path(FALSE, <<f>>), Path(FALSE, <<n>>),
          Path(TRUE, <<w2, f>>), Path(FALSE, <<DotDot, o, f>>),
          Path(FALSE, <<l, f>>), Path(FALSE, <<l, n>>) }

FeContents == { <<"c", "d">>, <<"c", "d", "e">> }

\* no WriteFile calls run at the same time
WritersIdle == writers = <<>>

FeIdle ==
    /\ fs = InitialFS
    /\ cache = EmptyCache
    /\ now = 0
    /\ op = Op("none", NoPath, NoPath, <<>>, FALSE, "done", "", 0, InitialFS)

Quiescent == op.pc \in {"done", "crashed"} /\ op.n < MaxOps

Done(err) == [op EXCEPT !.pc = "done", !.err = err]

\* the clock advances
Tick ==
    /\ now < MaxClock
    /\ now' = now + 1
    /\ UNCHANGED <<fs, cache, op>>
    /\ UNCHANGED otherThanFe

\* FileEngine.ReadFile(path, forceRefresh), and the read_file tool
FeReadFile(p, forceRefresh) ==
    /\ Quiescent
    /\ LET r == ReadFile(fs, cache, now, p, forceRefresh)
       IN  /\ cache' \in IF r.store THEN cacheSet(cache, now, p, r.content) ELSE {cache}
           /\ op' = [Op("read", p, NoPath, <<>>, forceRefresh, "done", r.err,
                        op.n + 1, fs) EXCEPT !.out = r.content]
    /\ UNCHANGED <<fs, now>>
    /\ UNCHANGED otherThanFe

\* FileEngine.WriteFile(path, content, backup), and the write_file tool:
\* the call and ValidatePath
FeWriteFile(p, content, backup) ==
    /\ Quiescent
    /\ LET v == ValidatePath(fs, p)
       IN  op' = Op("write", p, NoPath, content, backup,
                    IF v # "" THEN "done" ELSE IF backup THEN "backup" ELSE "temp",
                    v, op.n + 1, fs)
    /\ UNCHANGED <<fs, cache, now>>
    /\ UNCHANGED otherThanFe

\* if backup { createBackup(path) }
WriteBackup ==
    /\ op.pc = "backup"
    /\ LET b == createBackup(fs, now, op.path)
       IN  /\ fs' = b.fs
           /\ op' = IF b.err # "" THEN Done("BackupFailed") ELSE [op EXCEPT !.pc = "temp"]
    /\ UNCHANGED <<cache, now>>
    /\ UNCHANGED otherThanFe

\* os.WriteFile(tempFile, ...): the file is created or truncated
WriteTempOpen ==
    /\ op.pc = "temp"
    /\ LET o == osCreate(fs, TempFile(op.path))
       IN  /\ fs' = o.fs
           /\ op' = IF o.err # "" THEN Done(o.err)
                    ELSE [op EXCEPT !.tmp = o.file,
                                    !.pc = IF op.content = <<>> THEN "rename" ELSE "write"]
    /\ UNCHANGED <<cache, now>>
    /\ UNCHANGED otherThanFe

\* os.WriteFile(tempFile, ...): the next piece of the content reaches the file
WriteTempData ==
    /\ op.pc = "write"
    /\ fs' = Put(fs, op.tmp, File(Append(fs[op.tmp].content, op.content[op.written + 1])))
    /\ op' = [op EXCEPT !.written = @ + 1,
                        !.pc = IF op.written + 1 = Len(op.content) THEN "rename" ELSE "write"]
    /\ UNCHANGED <<cache, now>>
    /\ UNCHANGED otherThanFe

\* os.WriteFile(tempFile, ...): a write fails (the disk is full, an I/O
\* error) and WriteFile returns the error
WriteTempFail ==
    /\ op.pc = "write"
    /\ op' = Done("ENOSPC")
    /\ UNCHANGED <<fs, cache, now>>
    /\ UNCHANGED otherThanFe

\* os.Rename(tempFile, path), os.Remove(tempFile) if it fails, cache.set
WriteRename ==
    /\ op.pc = "rename"
    /\ LET rn == osRename(fs, TempFile(op.path), op.path)
       IN  IF rn.err # ""
             THEN /\ fs' = osRemove(fs, TempFile(op.path)).fs
                  /\ op' = Done(rn.err)
                  /\ cache' = cache
             ELSE /\ fs' = rn.fs
                  /\ op' = Done("")
                  /\ cache' \in cacheSet(cache, now, op.path, op.content)
    /\ UNCHANGED now
    /\ UNCHANGED otherThanFe

\* the process is killed inside WriteFile; the next engine starts with an
\* empty cache
Crash ==
    /\ op.kind = "write"
    /\ op.pc \in {"backup", "temp", "write", "rename"}
    /\ op' = [op EXCEPT !.pc = "crashed"]
    /\ cache' = EmptyCache
    /\ UNCHANGED <<fs, now>>
    /\ UNCHANGED otherThanFe

WriteNext ==
    \/ \E p \in FePaths, content \in FeContents, backup \in BOOLEAN :
         FeWriteFile(p, content, backup)
    \/ WriteBackup
    \/ WriteTempOpen
    \/ WriteTempData
    \/ WriteTempFail
    \/ WriteRename
    \/ Crash

FeNext ==
    \/ Tick
    \/ \E p \in FePaths, forceRefresh \in BOOLEAN : FeReadFile(p, forceRefresh)
    \/ \E p \in FePaths, content \in FeContents, backup \in BOOLEAN :
         FeWriteFile(p, content, backup)
    \/ WriteBackup
    \/ WriteTempOpen
    \/ WriteTempData
    \/ WriteTempFail
    \/ WriteRename
    \/ Crash

-----------------------------------------------------------------------------
(* FileWalker.Walk on a tree with nested directories, a blacklisted file, *)
(* a symlink that leaves the allowed root and one that stays inside it     *)

WalkFS ==
    LET w == <<"w">>  d == <<"d">>  e == <<"e">>  f == <<"f">>  k == <<"k">>
    IN  Put(Put(Put(Put(Put(Put(Put(InitialFS,
          <<w, d, k>>, Symlink(<<w, d, e>>)),
          <<w, d>>, Directory),
          <<w, d, f>>, File(<<"a">>)),
          <<w, d, <<"g", ".exe">> >>, File(<<"a">>)),
          <<w, d, <<"t", ".tmp">> >>, File(<<"a">>)),
          <<w, d, e>>, Directory),
          <<w, d, e, f>>, File(<<"a">>))

WalkRoots ==
    { Path(FALSE, <<Dot>>), Path(TRUE, <<>>), Path(FALSE, << <<"d">> >>),
      Path(FALSE, << <<"l">> >>), Path(FALSE, << <<"n">> >>), Path(TRUE, << <<"w">>, <<"f">> >>) }

WalkPatterns == { <<>>, <<"*">>, <<"f">>, <<"*", ".tmp">>, <<"[">> }

MaxWalkDepth == 1

WalkInit ==
    /\ fs = WalkFS
    /\ cache = EmptyCache
    /\ now = 0
    /\ op = Op("none", NoPath, NoPath, <<>>, FALSE, "done", "", 0, WalkFS)

\* NewFileWalker(root, include, exclude), SetMaxDepth(maxDepth) unless it is
\* left at -1, and Walk with a callback that collects the paths.  The
\* record of the operation keeps the include pattern in content, the exclude
\* pattern in out and the depth in written.
FeWalk(root, include, exclude, maxDepth) ==
    /\ Quiescent
    /\ LET r == Walk(fs, FileWalker(root, include, exclude, maxDepth))
       IN  op' = [Op("walk", root, NoPath, include, FALSE, "done", r.err, op.n + 1, fs)
                    EXCEPT !.out = exclude, !.written = maxDepth, !.listing = r.called]
    /\ UNCHANGED <<fs, cache, now>>
    /\ UNCHANGED otherThanFe

WalkNext ==
    \E root \in WalkRoots, include \in WalkPatterns, exclude \in WalkPatterns,
       maxDepth \in (0 - 1)..MaxWalkDepth : FeWalk(root, include, exclude, maxDepth)

-----------------------------------------------------------------------------
(* The file tools of the default registry that do not go through the engine *)
(* (internal/mcp/handler.go)                                                *)

ToolPaths ==
    FePaths \cup { Path(TRUE, << <<"o">> >>), Path(FALSE, <<Dot>>) }

ToolContents == { <<"c">> }

ToolOp(kind, p, p2, content, flag, err) ==
    Op(kind, p, p2, content, flag, "done", err, op.n + 1, fs)

\* ListDirectoryTool.Execute
ListDirectory(p) ==
    /\ Quiescent
    /\ LET rd == osReadDir(fs, p)
       IN  op' = [ToolOp("list_directory", p, NoPath, <<>>, FALSE, rd.err)
                    EXCEPT !.listing = rd.entries]
    /\ UNCHANGED <<fs, cache, now>>
    /\ UNCHANGED otherThanFe

\* CreateFileTool.Execute
CreateFile(p, content, overwrite) ==
    /\ Quiescent
    /\ LET st == osStat(fs, p)
           mk == osMkdirAll(fs, Dir(p))
           wr == osWriteFile(mk.fs, p, content)
           r == IF st.err = "" /\ ~overwrite THEN [err |-> "EEXIST", fs |-> fs]
                ELSE IF mk.err # "" THEN mk
                ELSE IF wr.err # "" THEN [err |-> wr.err, fs |-> mk.fs]
                ELSE wr
       IN  /\ fs' = r.fs
           /\ op' = ToolOp("create_file", p, NoPath, content, overwrite, r.err)
    /\ UNCHANGED <<cache, now>>
    /\ UNCHANGED otherThanFe

\* DeleteFileTool.Execute
DeleteFile(p, recursive) ==
    /\ Quiescent
    /\ LET st == osStat(fs, p)
           r == IF st.err # "" THEN [err |-> st.err, fs |-> fs]
                ELSE IF st.isDir /\ ~recursive THEN [err |-> "EISDIR", fs |-> fs]
                ELSE IF st.isDir THEN osRemoveAll(fs, p)
                ELSE osRemove(fs, p)
       IN  /\ fs' = r.fs
           /\ op' = ToolOp("delete_file", p, NoPath, <<>>, recursive, r.err)
    /\ UNCHANGED <<cache, now>>
    /\ UNCHANGED otherThanFe

\* MoveFileTool.Execute
MoveFile(source, destination, overwrite) ==
    /\ Quiescent
    /\ LET st == osStat(fs, destination)
           r == IF st.err = "" /\ ~overwrite THEN [err |-> "EEXIST", fs |-> fs]
                ELSE osRename(fs, source, destination)
       IN  /\ fs' = r.fs
           /\ op' = ToolOp("move_file", source, destination, <<>>, overwrite, r.err)
    /\ UNCHANGED <<cache, now>>
    /\ UNCHANGED otherThanFe

\* CopyFileTool.Execute
CopyFile(source, destination, overwrite) ==
    /\ Quiescent
    /\ LET st == osStat(fs, destination)
           rd == osReadFile(fs, source)
           mk == osMkdirAll(fs, Dir(destination))
           wr == osWriteFile(mk.fs, destination, rd.content)
           r == IF st.err = "" /\ ~overwrite THEN [err |-> "EEXIST", fs |-> fs]
                ELSE IF rd.err # "" THEN [err |-> rd.err, fs |-> fs]
                ELSE IF mk.err # "" THEN mk
                ELSE IF wr.err # "" THEN [err |-> wr.err, fs |-> mk.fs]
                ELSE wr
       IN  /\ fs' = r.fs
           /\ op' = [ToolOp("copy_file", source, destination, <<>>, overwrite, r.err)
                       EXCEPT !.out = IF r.err = "" THEN rd.content ELSE <<>>]
    /\ UNCHANGED <<cache, now>>
    /\ UNCHANGED otherThanFe

ToolNext ==
    \/ \E p \in ToolPaths : ListDirectory(p)
    \/ \E p \in ToolPaths, content \in ToolContents, overwrite \in BOOLEAN :
         CreateFile(p, content, overwrite)
    \/ \E p \in ToolPaths, recursive \in BOOLEAN : DeleteFile(p, recursive)
    \/ \E source \in ToolPaths, destination \in ToolPaths, overwrite \in BOOLEAN :
         MoveFile(source, destination, overwrite)
    \/ \E source \in ToolPaths, destination \in ToolPaths, overwrite \in BOOLEAN :
         CopyFile(source, destination, overwrite)
    \/ \E p \in FePaths, forceRefresh \in BOOLEAN : FeReadFile(p, forceRefresh)
    \/ \E p \in FePaths, content \in ToolContents, backup \in BOOLEAN :
         FeWriteFile(p, content, backup)
    \/ WriteBackup
    \/ WriteTempOpen
    \/ WriteTempData
    \/ WriteTempFail
    \/ WriteRename

\* validateSafePath of the older handlers: "" or the kind of the error
validateSafePath(p) ==
    LET cleanPath == Clean(p)
        absPath == Abs(cleanPath)
        relPath == Rel(Cwd, absPath)
    IN  IF relPath # <<>> /\ HasPrefix(Head(relPath), DotDot) THEN "ParentDirectory"
        ELSE IF \E i \in 1..Len(relPath) : \E j \in 1..Len(relPath[i]) :
                  relPath[i][j] \in {"~", "$"}
          THEN "DangerousSymbol"
        ELSE ""

-----------------------------------------------------------------------------
(* RetryableHTTPClient.Do (internal/utils/retry.go) *)

MaxMaxRetries == 2   \* largest MaxRetries of a configuration

RetryableStatusCodes == {408, 429, 500, 502, 503, 504}

\* the status codes the server answers with
ServerStatuses == {200, 404, 500, 503}

\* errors: of client.Do (network, context), and made from a retryable status
NoErr == [kind |-> "nil", code |-> 0]
NetErr == [kind |-> "net", code |-> 0]
CtxErr == [kind |-> "ctx", code |-> 0]
HTTPErr(code) == [kind |-> "http", code |-> code]

\* what Do returns as its error: nil, req.Context().Err() itself, or
\* fmt.Errorf("after %d retries: %w", MaxRetries, lastErr)
ReturnedNil == [kind |-> "nil", retries |-> 0, wraps |-> NoErr]
ReturnedCtx == [kind |-> "ctx", retries |-> 0, wraps |-> NoErr]
AfterRetries(n, lastErr) == [kind |-> "after", retries |-> n, wraps |-> lastErr]

\* the configurations: MaxRetries, whether RetryableErrors is set (it then
\* accepts every error), the delays in units of time, the multiplier
RetryConfigs ==
    [MaxRetries : 0..MaxMaxRetries, RetryableErrors : BOOLEAN,
     InitialDelay : {1, 3}, MaxDelay : {2, 4}, BackoffMultiplier : {1, 2}]

RECURSIVE Pow(_, _)
Pow(b, e) == IF e = 0 THEN 1 ELSE b * Pow(b, e - 1)

\* a variant of calculateDelay without the cap
calculateDelayUncapped(config, attempt) ==
    config.InitialDelay * Pow(config.BackoffMultiplier, attempt - 1)

\* RetryableHTTPClient.calculateDelay
calculateDelay(config, attempt) ==
    LET delay == config.InitialDelay * Pow(config.BackoffMultiplier, attempt - 1)
    IN  IF delay > config.MaxDelay THEN config.MaxDelay ELSE delay

\* a variant of shouldRetryStatus that retries every status
shouldRetryStatusAny(config, statusCode) == TRUE

\* RetryableHTTPClient.shouldRetryStatus
shouldRetryStatus(config, statusCode) == statusCode \in RetryableStatusCodes

\* RetryableHTTPClient.shouldRetryError
shouldRetryError(config, err) == config.RetryableErrors

\* a variant of the loop condition that stops one attempt early
LoopConditionStrict(config, attempt) == attempt < config.MaxRetries

\* attempt <= r.config.MaxRetries
LoopCondition(config, attempt) == attempt <= config.MaxRetries

RtRecord(config, pc) ==
    [pc |-> pc, config |-> config, attempt |-> 0,
     lastErr |-> NoErr, lastResp |-> 0,
     cancelled |-> FALSE, cancelledAt |-> "", sentAtCancel |-> 0,
     timerFired |-> FALSE,
     sent |-> 0,        \* requests that reached the server
     log |-> <<>>,      \* what each client.Do returned: a status or an error
     waits |-> <<>>,    \* the delays slept in full
     waited |-> 0,      \* the time slept in all
     resp |-> 0, err |-> ReturnedNil]

RtIdle == rt = RtRecord([MaxRetries |-> 0, RetryableErrors |-> TRUE, InitialDelay |-> 1,
                         MaxDelay |-> 2, BackoffMultiplier |-> 1], "idle")

RtInit == \E config \in RetryConfigs : rt = RtRecord(config, "top")

Return(r, resp, err) == [r EXCEPT !.pc = "returned", !.resp = resp, !.err = err]

\* the code after the loop
AfterLoop(r) ==
    IF r.lastErr # NoErr
      THEN Return(r, 0, AfterRetries(r.config.MaxRetries, r.lastErr))
    ELSE Return(r, r.lastResp, ReturnedNil)

\* `continue`, or the end of the loop body: attempt++ and the loop condition
Continue(r) ==
    LET r1 == [r EXCEPT !.attempt = @ + 1, !.pc = "top"]
    IN  IF LoopCondition(r.config, r1.attempt) THEN r1 ELSE AfterLoop(r1)

\* what the loop body does with the result of client.Do
Handle(r, result) ==
    LET r1 == [r EXCEPT !.log = Append(@, result)]
    IN  IF result.kind # "status"
          THEN LET r2 == [r1 EXCEPT !.lastErr = result.err]
               IN  IF ~shouldRetryError(r.config, result.err) THEN AfterLoop(r2)
                   ELSE Continue(r2)
        ELSE IF ~shouldRetryStatus(r.config, result.code)
          THEN Return(r1, result.code, ReturnedNil)
        ELSE Continue([r1 EXCEPT !.lastResp = result.code,
                                 !.lastErr = HTTPErr(result.code)])

StatusResult(code) == [kind |-> "status", code |-> code, err |-> NoErr]
ErrorResult(err) == [kind |-> "error", code |-> 0, err |-> err]

\* the top of the loop body: the context check, then the timer or the request
RtLoopTop ==
    /\ rt.pc = "top"
    /\ rt' = IF rt.cancelled THEN Return(rt, 0, ReturnedCtx)
             ELSE IF rt.attempt > 0 THEN [rt EXCEPT !.pc = "sleep", !.timerFired = FALSE]
             ELSE [rt EXCEPT !.pc = "call"]
    /\ UNCHANGED otherThanRt

\* the timer of the backoff sleep expires
RtTimerFires ==
    /\ rt.pc = "sleep"
    /\ ~rt.timerFired
    /\ rt' = [rt EXCEPT !.timerFired = TRUE]
    /\ UNCHANGED otherThanRt

\* select: case <-req.Context().Done(); the sleep ended early or in full
RtSleepCancelled ==
    /\ rt.pc = "sleep"
    /\ rt.cancelled
    /\ \E slept \in {0, calculateDelay(rt.config, rt.attempt)} :
         /\ rt.timerFired => slept = calculateDelay(rt.config, rt.attempt)
         /\ rt' = Return([rt EXCEPT !.waited = @ + slept], 0, ReturnedCtx)
    /\ UNCHANGED otherThanRt

\* select: case <-timer.C
RtSleepDone ==
    /\ rt.pc = "sleep"
    /\ rt.timerFired
    /\ LET delay == calculateDelay(rt.config, rt.attempt)
       IN  rt' = [rt EXCEPT !.pc = "call", !.waits = Append(@, delay),
                            !.waited = @ + delay]
    /\ UNCHANGED otherThanRt

\* r.client.Do(clonedReq) is called: with a context that is done it returns
\* the context's error and sends nothing, else the request is sent
RtCall ==
    /\ rt.pc = "call"
    /\ rt' = IF rt.cancelled THEN Handle(rt, ErrorResult(CtxErr))
             ELSE [rt EXCEPT !.pc = "inflight", !.sent = @ + 1]
    /\ UNCHANGED otherThanRt

\* r.client.Do returns a response, and the loop body handles it
RtResponse(code) ==
    /\ rt.pc = "inflight"
    /\ rt' = Handle(rt, StatusResult(code))
    /\ UNCHANGED otherThanRt

\* r.client.Do returns a network error, or the context's error if the
\* context is done, and the loop body handles it
RtError(err) ==
    /\ rt.pc = "inflight"
    /\ err = CtxErr => rt.cancelled
    /\ rt' = Handle(rt, ErrorResult(err))
    /\ UNCHANGED otherThanRt

\* the request's context is cancelled or expires
RtCancel ==
    /\ rt.pc \in {"top", "sleep", "call", "inflight"}
    /\ ~rt.cancelled
    /\ rt' = [rt EXCEPT !.cancelled = TRUE, !.cancelledAt = rt.pc,
                        !.sentAtCancel = rt.sent]
    /\ UNCHANGED otherThanRt

RtNext ==
    \/ RtLoopTop
    \/ RtTimerFires
    \/ RtSleepCancelled
    \/ RtSleepDone
    \/ RtCall
    \/ \E code \in ServerStatuses : RtResponse(code)
    \/ \E err \in {NetErr, CtxErr} : RtError(err)
    \/ RtCancel

-----------------------------------------------------------------------------
(* Client.StreamChat as a whole: the request goes through the retrying     *)
(* client (client.go 278-282), the status is checked (284-287), then the   *)
(* frames are read.                                                        *)

\* a response started while the retrying client has not returned yet
BodyOpenEarly == rt.sent > 0

\* c.client.Do returned a response with status 200: the body is read
BodyOpen == rt.pc = "returned" /\ rt.err = ReturnedNil /\ rt.resp = 200

\* the first turn of a conversation answered with text, Esc never pressed
StreamDoNext ==
    \/ streams = <<>> /\ KeyEnter
    \/ streams # <<>> /\ RtLoopTop
    \/ streams # <<>> /\ RtTimerFires
    \/ streams # <<>> /\ RtSleepDone
    \/ streams # <<>> /\ RtCall
    \/ \E code \in ServerStatuses : streams # <<>> /\ RtResponse(code)
    \/ streams # <<>> /\ RtError(NetErr)
    \/ \E s \in DOMAIN streams : \E f \in TextFrames : BodyOpen /\ ProducerFrame(s, f)
    \/ \E s \in DOMAIN streams : BodyOpen /\ ProducerExit(s, TRUE, TRUE)
    \/ \E s \in DOMAIN streams : rt.pc = "returned" /\ ProducerExit(s, FALSE, TRUE)
    \/ \E c \in BagToSet(cmds) : \E which \in Channels : UpdateCheckStream(c, which)
    \/ \E c \in BagToSet(cmds) : \E which \in Channels : UpdateStreamChunk(c, which)
    \/ \E c \in BagToSet(cmds) : \E which \in Channels : UpdateToolCall(c, which)
    \/ \E c \in BagToSet(cmds) : \E which \in Channels : UpdateStreamError(c, which)

-----------------------------------------------------------------------------
(* ConvertToMCPError (internal/mcp/protocol.go): the error code a file tool *)
(* reports is chosen by the phrases found in the error's text.  A text is   *)
(* the sequence of its phrases, a code the name of its constant.           *)

\* the text of the errors of the operating system
OSErrorText(err) ==
    CASE err = "ENOENT" -> <<"no such file", " or directory">>
      [] err = "EISDIR" -> <<"is a directory">>
      [] err = "ENOTDIR" -> <<"not a directory">>
      [] err = "EEXIST" -> <<"file exists">>
      [] err = "ELOOP" -> <<"too many levels of symbolic links">>
      [] OTHER -> <<err>>

\* the text of the errors ValidatePath, ReadFile and WriteFile return;
\* `wrapped` is the error createBackup returned, which WriteFile prefixes
\* with six Chinese characters, written here by their code points
ErrorText(err, wrapped) ==
    CASE err = "PathNotAllowed" -> <<"path ", "outside allowed roots", ": ">>
      [] err = "TypeNotAllowed" -> <<"file type not allowed", ": ">>
      [] err = "EvalSymlinksFailed" -> <<"failed to evaluate symlinks", ": ">>
      [] err = "FileTooLarge" -> <<"file too large", ": ">>
      [] err = "BackupFailed" -> <<"U+521B U+5EFA U+5907 U+4EFD U+5931 U+8D25", ": ">> \o OSErrorText(wrapped)
      [] OTHER -> OSErrorText(err)

\* strings.Contains(errStr, phrase)
Contains(text, phrase) == \E i \in 1..Len(text) : text[i] = phrase

ConvertToMCPError(text) ==
    IF Contains(text, "outside allowed roots") THEN "CodePathNotAllowed"
    ELSE IF Contains(text, "file too large") THEN "CodeFileTooLarge"
    ELSE IF Contains(text, "no such file") \/ Contains(text, "file does not exist")
      THEN "CodeFileNotFound"
    ELSE IF Contains(text, "backup failed") THEN "CodeBackupFailed"
    ELSE IF Contains(text, "permission denied") THEN "CodeInternalError"
    ELSE IF Contains(text, "file type not allowed") THEN "CodePathNotAllowed"
    ELSE "CodeInternalError"

-----------------------------------------------------------------------------
(* The file engine with a cache that earlier reads have filled *)

\* the path of the i-th file read earlier
CachedPath(i) == Path(FALSE, << <<ToString(i)>> >>)

\* the minute the i-th file was read: the older half at minute 0, two files
\* at minute 1, the others at minute 2
CachedAt(i) ==
    IF i < CacheMaxSize \div 2 THEN 0
    ELSE IF i <= CacheMaxSize \div 2 + 1 THEN 1
    ELSE 2

\* the cache after k reads of distinct files
FilledCache(k) ==
    LET paths == { CachedPath(i) : i \in 1..k }
        index(p) == CHOOSE i \in 1..k : CachedPath(i) = p
    IN  [p \in paths |-> [content |-> <<"a">>, time |-> CachedAt(index(p))]]

CacheInit ==
    /\ fs = InitialFS
    /\ \E k \in 0..CacheMaxSize : cache = FilledCache(k)
    /\ now = 2
    /\ op = Op("none", NoPath, NoPath, <<>>, FALSE, "done", "", 0, InitialFS)

CacheNext ==
    \/ Tick
    \/ \E p \in FePaths, forceRefresh \in BOOLEAN : FeReadFile(p, forceRefresh)

-----------------------------------------------------------------------------
(* The file engine given several spellings of one file: relative,           *)
(* dot-prefixed and absolute                                                *)

AliasPaths ==
    { Path(FALSE, << <<"f">> >>), Path(FALSE, <<Dot, <<"f">> >>),
      Path(TRUE, << <<"w">>, <<"f">> >>) }

AliasNext ==
    \/ Tick
    \/ \E p \in AliasPaths, forceRefresh \in BOOLEAN : FeReadFile(p, forceRefresh)
    \/ \E p \in AliasPaths, content \in FeContents, backup \in BOOLEAN :
         FeWriteFile(p, content, backup)
    \/ WriteBackup
    \/ WriteTempOpen
    \/ WriteTempData
    \/ WriteTempFail
    \/ WriteRename

-----------------------------------------------------------------------------
(* Two FileEngine.WriteFile calls on one path running at the same time.     *)
(* WriteFile holds no lock of its own (only fileCache.set does), so the     *)
(* system calls of the two calls interleave.  A call's open file is known   *)
(* by the place of the file in the tree, which a rename moves.              *)

Unlinked == <<"unlinked">>

Writer(p, content) ==
    [path |-> p, content |-> content, pc |-> "validate", err |-> "", fd |-> <<>>]

WriterPaths == { Path(FALSE, << <<"f">> >>), Path(FALSE, << <<"n">> >>) }
WriterContents == { <<"c", "d">>, <<"x", "y", "z">>, <<"q">> }

WritersInit ==
    \E p \in WriterPaths : \E c1 \in WriterContents, c2 \in WriterContents :
      /\ c1 # c2
      /\ writers = <<Writer(p, c1), Writer(p, c2)>>

\* the open files after a rename of src onto dst: a file open at src is
\* now at dst, a file open at dst has lost its name
AfterRename(ws, src, dst) ==
    [j \in DOMAIN ws |->
       IF ws[j].fd = src THEN [ws[j] EXCEPT !.fd = dst]
       ELSE IF ws[j].fd = dst THEN [ws[j] EXCEPT !.fd = Unlinked]
       ELSE ws[j]]

\* the open files after the file at a has been removed
AfterRemove(ws, a) ==
    [j \in DOMAIN ws |-> IF ws[j].fd = a THEN [ws[j] EXCEPT !.fd = Unlinked] ELSE ws[j]]

\* write(2) of data at offset 0 of a file that holds old
Overwrite(old, data) == data \o SubSeq(old, Len(data) + 1, Len(old))

\* if err := e.ValidatePath(path)
CwValidate(i) ==
    /\ writers[i].pc = "validate"
    /\ LET v == ValidatePath(fs, writers[i].path)
       IN  writers' = [writers EXCEPT ![i].err = v,
                                      ![i].pc = IF v # "" THEN "done" ELSE "open"]
    /\ UNCHANGED <<fs, cache>>
    /\ UNCHANGED otherThanWriters

\* os.WriteFile(tempFile, ...): open with O_CREATE|O_TRUNC
CwOpen(i) ==
    /\ writers[i].pc = "open"
    /\ LET o == osCreate(fs, TempFile(writers[i].path))
       IN  /\ fs' = o.fs
           /\ writers' = IF o.err # "" THEN [writers EXCEPT ![i].err = o.err, ![i].pc = "done"]
                         ELSE [writers EXCEPT ![i].fd = o.file, ![i].pc = "write"]
    /\ UNCHANGED cache
    /\ UNCHANGED otherThanWriters

\* os.WriteFile(tempFile, ...): write and close
CwWrite(i) ==
    /\ writers[i].pc = "write"
    /\ LET a == writers[i].fd
       IN  fs' = IF a = Unlinked THEN fs
                 ELSE Put(fs, a, File(Overwrite(fs[a].content, writers[i].content)))
    /\ writers' = [writers EXCEPT ![i].fd = <<>>, ![i].pc = "rename"]
    /\ UNCHANGED cache
    /\ UNCHANGED otherThanWriters

\* os.Rename(tempFile, path), and os.Remove(tempFile) if it fails
CwRename(i) ==
    /\ writers[i].pc = "rename"
    /\ LET p == writers[i].path
           rn == osRename(fs, TempFile(p), p)
           src == LLookup(fs, TempFile(p)).path
           dst == LLookup(fs, p).path
           rm == osRemove(fs, TempFile(p))
       IN  IF rn.err # ""
             THEN /\ fs' = rm.fs
                  /\ writers' = [IF rm.err = "" THEN AfterRemove(writers, src) ELSE writers
                                   EXCEPT ![i].err = rn.err, ![i].pc = "done"]
             ELSE /\ fs' = rn.fs
                  /\ writers' = [AfterRename(writers, src, dst) EXCEPT ![i].pc = "cache"]
    /\ UNCHANGED cache
    /\ UNCHANGED otherThanWriters

\* e.cache.set(path, content); return nil
CwCacheSet(i) ==
    /\ writers[i].pc = "cache"
    /\ cache' \in cacheSet(cache, now, writers[i].path, writers[i].content)
    /\ writers' = [writers EXCEPT ![i].pc = "done"]
    /\ UNCHANGED fs
    /\ UNCHANGED otherThanWriters

WritersNext ==
    \E i \in DOMAIN writers :
      CwValidate(i) \/ CwOpen(i) \/ CwWrite(i) \/ CwRename(i) \/ CwCacheSet(i)

-----------------------------------------------------------------------------
(* Specifications *)

Init == LoopInit /\ HtcIdle /\ FeIdle /\ RtIdle /\ WritersIdle
Next == LoopNext
Spec == Init /\ [][Next]_vars

InitHTC == LoopInit /\ HtcInit /\ FeIdle /\ RtIdle /\ WritersIdle
NextHTC == HtcNext
SpecHTC == InitHTC /\ [][NextHTC]_vars

InitFE == LoopInit /\ HtcIdle /\ FeIdle /\ RtIdle /\ WritersIdle
NextFE == FeNext
SpecFE == InitFE /\ [][NextFE]_vars

\* WriteFile alone, interrupted or not, with the clock standing still
InitWrite == LoopInit /\ HtcIdle /\ FeIdle /\ RtIdle /\ WritersIdle
NextWrite == WriteNext
SpecWrite == InitWrite /\ [][NextWrite]_vars

InitRetry == LoopInit /\ HtcIdle /\ FeIdle /\ RtInit /\ WritersIdle
NextRetry == RtNext
SpecRetry == InitRetry /\ [][NextRetry]_vars

InitText == LoopInit /\ HtcIdle /\ FeIdle /\ RtIdle /\ WritersIdle
NextText == TextNext
SpecText == InitText /\ [][NextText]_vars

InitRun == LoopInit /\ HtcIdle /\ FeIdle /\ RtIdle /\ WritersIdle
NextRun == RunNext
SpecRun == InitRun /\ [][NextRun]_vars

InitDecode == LoopInit /\ HtcIdle /\ FeIdle /\ RtIdle /\ WritersIdle
NextDecode == DecodeNext
SpecDecode == InitDecode /\ [][NextDecode]_vars

InitStreamDo == LoopInit /\ HtcIdle /\ FeIdle /\ RtInit /\ rt.config.RetryableErrors /\ WritersIdle
NextStreamDo == StreamDoNext
SpecStreamDo == InitStreamDo /\ [][NextStreamDo]_vars

InitProducer == LoopInit /\ HtcIdle /\ FeIdle /\ RtIdle /\ WritersIdle
NextProducer == ProducerNext
SpecProducer == InitProducer /\ [][NextProducer]_vars /\ ProducerFairness

InitCancel == LoopInit /\ HtcIdle /\ FeIdle /\ RtIdle /\ WritersIdle
NextCancel == CancelNext
SpecCancel == InitCancel /\ [][NextCancel]_vars /\ CancelFairness

InitCache == LoopInit /\ HtcIdle /\ CacheInit /\ RtIdle /\ WritersIdle
NextCache == CacheNext
SpecCache == InitCache /\ [][NextCache]_vars

InitBatch == LoopInit /\ HtcIdle /\ FeIdle /\ RtIdle /\ WritersIdle
NextBatch == BatchNext
SpecBatch == InitBatch /\ [][NextBatch]_vars

InitWalk == LoopInit /\ HtcIdle /\ WalkInit /\ RtIdle /\ WritersIdle
NextWalk == WalkNext
SpecWalk == InitWalk /\ [][NextWalk]_vars

InitWriters == LoopInit /\ HtcIdle /\ FeIdle /\ RtIdle /\ WritersInit
NextWriters == WritersNext
SpecWriters == InitWriters /\ [][NextWriters]_vars

InitAlias == LoopInit /\ HtcIdle /\ FeIdle /\ RtIdle /\ WritersIdle
NextAlias == AliasNext
SpecAlias == InitAlias /\ [][NextAlias]_vars

InitTools == LoopInit /\ HtcIdle /\ FeIdle /\ RtIdle /\ WritersIdle
NextTools == ToolNext
SpecTools == InitTools /\ [][NextTools]_vars

-----------------------------------------------------------------------------
(* Claims *)

Idle == ~thinking

\* every assistant message with tool_calls is followed at once by exactly one
\* tool result per call id, in call order
TurnAligned(h) ==
    \A i \in 1..Len(h) :
      (h[i].role = "assistant" /\ Len(h[i].tool_calls) > 0) =>
        LET n == Len(h[i].tool_calls)
        IN  /\ i + n <= Len(h)
            /\ \A k \in 1..n : /\ h[i + k].role = "tool"
                               /\ h[i + k].tool_call_id = h[i].tool_calls[k].id
            /\ (i + n + 1 <= Len(h) => h[i + n + 1].role # "tool")

\* C1: whenever the Loop is Idle, and in every request it has opened, each
\* assistant message with tool_calls in the API history is immediately
\* followed by exactly one tool result per call id, in call order.
C1_TurnAlignment ==
    /\ Idle => TurnAligned(apiMessages)
    /\ \A s \in DOMAIN streams : TurnAligned(streams[s].req)

AssistantTexts(h) ==
    Cardinality({ i \in 1..Len(h) : h[i].role = "assistant" /\ h[i].content # <<"null">> })

\* the stream opened last was cancelled and no stream was opened since
CancelledTurn == Len(streams) > 0 /\ streams[Len(streams)].cancelled

\* C2: once cancellation has fired on the open stream, no event of that
\* stream (sentinel, channel close, late delta) appends an assistant text
\* message built from the text accumulated in the cancelled turn.
C2_NoPartialCommit ==
    [][(CancelledTurn /\ Len(streams') = Len(streams))
          => AssistantTexts(apiMessages') = AssistantTexts(apiMessages)]_vars

\* C3: after cancellation the Loop is Idle, and the next stream is opened
\* only by a new user message.
C3_CancelEndsTurn ==
    /\ [](CancelledTurn => Idle)
    /\ [][(CancelledTurn /\ Len(streams') > Len(streams))
            => /\ Len(apiMessages') = Len(apiMessages) + 1
               /\ Last(apiMessages').role = "user"]_vars

\* C4: HandleToolCalls dispatches the calls one at a time in list order and
\* returns exactly one tool-role message per call, the i-th carrying the i-th
\* call's id, a failed call's message holding the failure text.
C4_OneResultPerCall ==
    /\ Len(htc.messages) = htc.i - 1
    /\ htc.dispatched = [k \in 1..(htc.i - 1) |-> htc.calls[k].id]
    /\ \A k \in 1..Len(htc.messages) :
         /\ htc.messages[k].role = "tool"
         /\ htc.messages[k].tool_call_id = htc.calls[k].id
         /\ executeToolCall(htc.calls[k], htc.outcomes[k]).err
              => htc.messages[k].content = Quote(Quote(<<"Error">>))
    /\ htc.pc = "returned" =>
         /\ Len(htc.ret) = Len(htc.calls)
         /\ \A k \in 1..Len(htc.calls) : htc.ret[k].tool_call_id = htc.calls[k].id

\* a batch of two calls has returned, one of which failed and one succeeded
C4_Witness ==
    /\ htc.pc = "returned"
    /\ Len(htc.calls) = 2
    /\ executeToolCall(htc.calls[1], htc.outcomes[1]).err
    /\ ~executeToolCall(htc.calls[2], htc.outcomes[2]).err

ExecCmds == { c \in BagToSet(cmds) : c.k = "exec" }

\* the fragments of call id in the frames of a stream, in order
RECURSIVE FragmentArgs(_, _)
FragmentArgs(frames, id) ==
    IF frames = <<>> THEN <<>>
    ELSE LET f == Head(frames)
             own == IF ~f.malformed /\ Len(f.toolCalls) > 0 /\ f.toolCalls[1].id = id
                    THEN Unquote(f.toolCalls[1].arguments) ELSE <<>>
         IN  own \o FragmentArgs(Tail(frames), id)

FragmentIds(frames) ==
    { frames[i].toolCalls[1].id : i \in { j \in 1..Len(frames) : Len(frames[j].toolCalls) > 0 } }

\* C5: when the first stream has ended normally, uncancelled, with every
\* tool-call batch consumed, the calls handed to the dispatcher hold exactly
\* one call per fragment id, its arguments the concatenation of the fragments.
C5_FragmentReassembly ==
    \A c \in ExecCmds :
      (/\ Len(streams) = 1
       /\ ~streams[1].cancelled
       /\ streams[1].closed
       /\ streams[1].toolCallCh = <<>>)
      => \A id \in FragmentIds(streams[1].frames) :
           /\ Cardinality({ i \in 1..Len(c.calls) : c.calls[i].id = id }) = 1
           /\ \A i \in 1..Len(c.calls) :
                c.calls[i].id = id =>
                  c.calls[i].arguments = Quote(FragmentArgs(streams[1].frames, id))

-----------------------------------------------------------------------------
(* Claims about the file engine *)

\* what a reader of the path finds on disk
OnDisk(f, p) == osReadFile(f, p)

UnderRoots(a) == \E root \in AllowedRoots : IsUnder(a, Abs(root))

\* the absolute form of the path is neither an allowed root nor under one
LexOutside(p) == ~UnderRoots(Abs(p))

\* the part of the filesystem outside the allowed roots
Outside(f) == Del(f, { x \in DOMAIN f : UnderRoots(x) })

\* the path is lexically under a root and the kernel resolves it, through a
\* symlink, to a place outside the roots (the last component may be missing)
ResolvesOutside(f, p) ==
    LET r == Namei(f, <<>>, Abs(p), TRUE, MaxLinks)
    IN  ~LexOutside(p) /\ r.err = "" /\ ~UnderRoots(r.path)

EngineOp == op.kind \in {"read", "write"}

\* C6: while WriteFile runs, and after it was killed at any step, the target
\* path holds its complete previous content (or is absent as before) or the
\* complete new content
C6_AtomicReplace ==
    op.kind = "write" =>
      OnDisk(fs, op.path) \in { OnDisk(op.fs0, op.path),
                                [err |-> "", content |-> op.content] }

\* killed after the temporary file was written in full and before the rename,
\* the target still holding its previous content
C6_Witness ==
    /\ op.kind = "write" /\ op.pc = "crashed"
    /\ op.written = Len(op.content)
    /\ op.tmp \in DOMAIN fs /\ fs[op.tmp].content = op.content
    /\ OnDisk(fs, op.path) = [err |-> "", content |-> <<"a", "b">>]
    /\ OnDisk(op.fs0, op.path) = OnDisk(fs, op.path)

\* C7: after WriteFile(path, c) returned success, ReadFile(path) returns
\* exactly c with and without force-refresh, and the cache entry of the path
\* equals the content on disk
C7_ReadAfterWrite ==
    (op.kind = "write" /\ op.pc = "done" /\ op.err = "") =>
      /\ \A forceRefresh \in BOOLEAN :
           LET r == ReadFile(fs, cache, now, op.path, forceRefresh)
           IN  r.err = "" /\ r.content = op.content
      /\ op.path \in DOMAIN cache
      /\ OnDisk(fs, op.path) = [err |-> "", content |-> cache[op.path].content]

\* C8: for a path whose absolute form is outside the allowed roots the
\* validators reject it, and ReadFile and WriteFile return the
\* path-not-allowed error, return no content and leave the filesystem as it was
C8_OutsideRejected ==
    (EngineOp /\ LexOutside(op.path)) =>
      /\ ValidatePath(op.fs0, op.path) = "PathNotAllowed"
      /\ validateSafePath(op.path) # ""
      /\ op.pc = "done" /\ op.err = "PathNotAllowed"
      /\ op.out = <<>>
      /\ fs = op.fs0

\* C9: for a path lexically under a root that resolves through a symlink to
\* a place outside the roots, ReadFile and WriteFile return the
\* path-not-allowed error, return no content and leave everything outside the
\* roots as it was
C9_SymlinkEscapeRejected ==
    (EngineOp /\ ResolvesOutside(op.fs0, op.path)) =>
      /\ op.pc = "done" /\ op.err = "PathNotAllowed"
      /\ op.out = <<>>
      /\ Outside(fs) = Outside(op.fs0)

FileTools ==
    {"list_directory", "create_file", "delete_file", "move_file", "copy_file",
     "read", "write"}

\* C10: a file tool given a path outside the allowed roots yields a failure
\* result, returns no listing and no content, and leaves everything outside
\* the roots as it was
C10_ToolsRefuseOutside ==
    (/\ op.kind \in FileTools
     /\ op.pc = "done"
     /\ \/ LexOutside(op.path)
        \/ op.kind \in {"move_file", "copy_file"} /\ LexOutside(op.path2)) =>
      /\ op.err # ""
      /\ op.listing = {}
      /\ op.out = <<>>
      /\ Outside(fs) = Outside(op.fs0)

-----------------------------------------------------------------------------
(* Claims about the retrying transport *)

RtReturned == rt.pc = "returned"

IsStatus(result) == result.kind = "status"
IsRetryable(result) == IsStatus(result) /\ result.code \in RetryableStatusCodes

\* C11: when every attempt was answered with a retryable status, Do has
\* made exactly MaxRetries + 1 attempts when it returns, and it returns a nil
\* response and a non-nil error
C11_AttemptsOnExhaustion ==
    (/\ RtReturned
     /\ ~rt.cancelled
     /\ \A i \in 1..Len(rt.log) : IsRetryable(rt.log[i])) =>
      /\ rt.sent = rt.config.MaxRetries + 1
      /\ Len(rt.log) = rt.config.MaxRetries + 1
      /\ rt.resp = 0
      /\ rt.err # ReturnedNil

\* the server answered every one of three attempts with 500 and Do returned
C11_Witness ==
    /\ RtReturned /\ ~rt.cancelled
    /\ rt.config.MaxRetries = 2
    /\ rt.log = <<StatusResult(500), StatusResult(500), StatusResult(500)>>

\* C12: if the context was cancelled during the backoff sleep or before an
\* attempt started (at the context check, or between it and the request), Do
\* returns the context's own error and no response, and no request was sent
\* after the cancellation
C12_CancelDuringBackoff ==
    (RtReturned /\ rt.cancelled /\ rt.cancelledAt \in {"top", "sleep", "call"}) =>
      /\ rt.err = ReturnedCtx
      /\ rt.resp = 0
      /\ rt.sent = rt.sentAtCancel

\* C13: a response whose status is not retryable is the last thing Do
\* receives: Do has returned it with a nil error, and if only retryable
\* responses came before it, as many requests were sent as responses received
C13_FirstFinalResponse ==
    \A i \in 1..Len(rt.log) :
      (IsStatus(rt.log[i]) /\ rt.log[i].code \notin RetryableStatusCodes) =>
        /\ i = Len(rt.log)
        /\ RtReturned
        /\ rt.resp = rt.log[i].code
        /\ rt.err = ReturnedNil
        /\ (\A j \in 1..(i - 1) : IsRetryable(rt.log[j])) => rt.sent = i

\* a 200 after one 500
C13_Witness ==
    /\ RtReturned
    /\ rt.log = <<StatusResult(500), StatusResult(200)>>
    /\ rt.resp = 200 /\ rt.sent = 2

Min(a, b) == IF a <= b THEN a ELSE b

\* C14: the wait before the k-th retry is
\* min(InitialDelay * BackoffMultiplier^(k-1), MaxDelay), and the time waited
\* in all is at most MaxDelay times the number of retries
C14_BackoffDelays ==
    /\ \A k \in 1..Len(rt.waits) :
         rt.waits[k] = Min(rt.config.InitialDelay * Pow(rt.config.BackoffMultiplier, k - 1),
                           rt.config.MaxDelay)
    /\ rt.waited <= Min(rt.attempt, rt.config.MaxRetries) * rt.config.MaxDelay

\* two retries, the second wait cut to MaxDelay
C14_Witness ==
    /\ RtReturned
    /\ rt.config.InitialDelay = 3 /\ rt.config.BackoffMultiplier = 2
    /\ rt.config.MaxDelay = 4
    /\ rt.waits = <<3, 4>>
    /\ rt.waited = 7

\* the error of the last client.Do: its error, or the one made of the status
LastObserved(log) ==
    IF IsStatus(Last(log)) THEN HTTPErr(Last(log).code) ELSE Last(log).err

\* C15: when Do gives up, the error it returns wraps the last observed error
\* and states the number of retries performed, that is the attempts made
\* after the first one
C15_ErrorOnGivingUp ==
    (RtReturned /\ rt.err.kind = "after") =>
      /\ rt.err.wraps = LastObserved(rt.log)
      /\ rt.err.retries = Len(rt.log) - 1

-----------------------------------------------------------------------------
(* Claims about the streams the Loop opens and the history it commits *)

\* the streams whose producer goroutine has not returned
OpenStreams == { s \in DOMAIN streams : streams[s].pc # "exited" }

\* C16: at any time at most one streaming session, a producer reading an
\* upstream response, is open: a stream is opened only after the previous
\* one has ended, failed or been fully aborted
C16_OneOpenStream == Cardinality(OpenStreams) <= 1

HasText(m) == m.content # <<"null">>

HasToolCalls(m) == Len(m.tool_calls) > 0

\* C17: no assistant message of the history carries both text content and
\* tool calls: one with a tool-call list has null content, one with text
\* content has no tool calls
C17_TextOrToolCalls ==
    \A i \in 1..Len(apiMessages) :
      apiMessages[i].role = "assistant" =>
        /\ HasToolCalls(apiMessages[i]) => apiMessages[i].content = <<"null">>
        /\ HasText(apiMessages[i]) => apiMessages[i].tool_calls = NoCalls

\* a history holding an assistant message of each kind
C17_Witness ==
    /\ \E i \in 1..Len(apiMessages) :
         /\ apiMessages[i].role = "assistant"
         /\ HasToolCalls(apiMessages[i]) /\ ~HasText(apiMessages[i])
    /\ \E j \in 1..Len(apiMessages) :
         /\ apiMessages[j].role = "assistant"
         /\ HasText(apiMessages[j]) /\ ~HasToolCalls(apiMessages[j])

RECURSIVE TextOf(_)
\* the text deltas of the frames read, in order
TextOf(frames) ==
    IF frames = <<>> THEN <<>> ELSE Head(frames).content \o TextOf(Tail(frames))

\* the first turn, not cancelled, its response without a tool call
FirstTurnOfText ==
    /\ Len(streams) = 1
    /\ ~streams[1].cancelled
    /\ \A i \in 1..Len(streams[1].frames) : streams[1].frames[i].toolCalls = <<>>

\* C18: when a turn ends with zero tool calls, the assistant message
\* committed to the history has as content the concatenation, in order, of
\* all the text deltas decoded from the stream in that turn, whether or not
\* a delta was dropped on the way to the consumer
C18_CommittedTextComplete ==
    [][(FirstTurnOfText /\ AssistantTexts(apiMessages') > AssistantTexts(apiMessages))
         => Last(apiMessages') = TextMessage("assistant", TextOf(streams[1].frames))]_vars

\* the places of the system prompt in a request
SystemPrompts(req) == { i \in 1..Len(req) : req[i].role = "system" }

\* the messages of a request other than system messages
WithoutSystem(req) == SelectSeq(req, LAMBDA m : m.role # "system")

\* C19: every request sent upstream, opened by a user message or as a
\* continuation after tool execution, carries the full message history
\* plus the system prompt, and the system prompt occurs exactly once in it
C19_SystemPromptOnce ==
    [][\A s \in DOMAIN streams' :
         s \notin DOMAIN streams =>
           /\ WithoutSystem(streams'[s].req) = apiMessages'
           /\ Cardinality(SystemPrompts(streams'[s].req)) = 1
           /\ \A i \in SystemPrompts(streams'[s].req) : streams'[s].req[i] = SystemPrompt]_vars

\* the run is over: both responses were read to their end and the Loop
\* waits for the user
RunEnded ==
    /\ Idle
    /\ cmds = EmptyBag
    /\ Len(streams) = 2
    /\ \A s \in DOMAIN streams : streams[s].pc = "exited"

\* C20: in the run where the user sends one message, the model answers with
\* one tool call, the tool returns a result and the model then answers with
\* text, the final history is made of four messages: user, assistant with
\* tool_calls, tool result, assistant text
C20_FourMessages ==
    RunEnded =>
      /\ Len(apiMessages) = 4
      /\ apiMessages[1] = TextMessage("user", <<"u">>)
      /\ apiMessages[2] = ToolCallMessage(streams[1].frames[1].toolCalls)
      /\ apiMessages[3].role = "tool"
      /\ apiMessages[3].tool_call_id = streams[1].frames[1].toolCalls[1].id
      /\ apiMessages[4] = TextMessage("assistant", TextOf(streams[2].frames))

-----------------------------------------------------------------------------
(* Claims about the decoding of the response and about the producer *)

\* the frames whose payload was decoded
Decoded(frames) == SelectSeq(frames, LAMBDA f : ~f.malformed)

RECURSIVE CallsOf(_)
\* the tool calls of the frames, in order
CallsOf(frames) ==
    IF frames = <<>> THEN <<>> ELSE Head(frames).toolCalls \o CallsOf(Tail(frames))

\* the text still waiting in chunkCh (the sentinel is the empty chunk)
QueuedText(ch) == Flatten(ch)

\* C21: a data: frame whose payload is not valid JSON produces no delta and
\* neither ends nor fails the stream: the deltas delivered in the first
\* turn, those the Loop has taken and those still queued, are the deltas of
\* the valid frames read so far, in order
C21_MalformedSkipped ==
    (Len(streams) = 1 /\ thinking) =>
      /\ currentResp \o QueuedText(streams[1].chunkCh) = TextOf(Decoded(streams[1].frames))
      /\ pendingToolCalls \o Flatten(streams[1].toolCallCh)
           = CallsOf(Decoded(streams[1].frames))

\* a malformed frame, then a valid frame whose text the Loop has received
C21_Witness ==
    /\ Len(streams) = 1 /\ thinking
    /\ Len(streams[1].frames) = 2
    /\ streams[1].frames[1].malformed
    /\ ~streams[1].frames[2].malformed
    /\ currentResp = streams[1].frames[2].content
    /\ currentResp # <<>>

\* a delta of the turn has been handed to onChunk
Surfaced == \E s \in DOMAIN streams : Decoded(streams[s].frames) # <<>>

C23_ProducerTerminates ==
    [](streams # <<>> => <>(\A s \in DOMAIN streams : streams[s].pc = "exited"))

\* the closure reading stream s waits in its select, no channel being ready
Blocked(s) ==
    /\ BagIn(RecvCmd(s), cmds)
    /\ \A which \in Channels : ~Ready(Chan(streams[s], which), streams[s].closed)

\* the context of stream s was cancelled
Cancelled(s) == s \in DOMAIN streams /\ streams[s].cancelled

\* the producer of stream s has returned and its consumer does not wait
Released(s) ==
    /\ s \in DOMAIN streams
    /\ streams[s].pc = "exited"
    /\ ~Blocked(s)

-----------------------------------------------------------------------------
(* Claims about the file engine's cache, size ceiling, backups and errors *)

\* this step is a call of ReadFile without force-refresh whose path passes
\* the validation
PlainRead ==
    /\ op'.n = op.n + 1
    /\ op'.kind = "read"
    /\ ~op'.flag
    /\ ValidatePath(fs, op'.path) = ""

\* the cache holds an entry for p that is not older than the TTL
Fresh(p) == p \in DOMAIN cache /\ now - cache[p].time <= CacheTTL

\* C25: ReadFile without force-refresh returns the cached bytes, the cache
\* untouched, exactly when an entry for the path exists and is not older
\* than the TTL; otherwise, an older entry as an absent one, what it returns
\* is read from the disk and the entry is refreshed
C25_CacheHitWithinTTL ==
    [][PlainRead =>
         IF Fresh(op'.path)
           THEN /\ op'.err = ""
                /\ op'.out = cache[op'.path].content
                /\ cache' = cache
           ELSE op'.err = "" =>
                  /\ op'.out = osReadFile(fs, op'.path).content
                  /\ op'.path \in DOMAIN cache'
                  /\ cache'[op'.path] = [content |-> op'.out, time |-> now]]_vars

\* the second operation read a path cached at minute 0 by the first; the
\* entry, now as old as the TTL, was not refreshed
C25_Witness ==
    /\ op.n = 2 /\ op.kind = "read" /\ ~op.flag /\ op.err = ""
    /\ op.path \in DOMAIN cache
    /\ cache[op.path].time = 0
    /\ now = CacheTTL
    /\ op.out = cache[op.path].content

\* this step is a call of ReadFile that goes to the disk: the path passes
\* the validation, and the read is forced or the cache has no fresh entry
DiskRead ==
    /\ op'.n = op.n + 1
    /\ op'.kind = "read"
    /\ ValidatePath(fs, op'.path) = ""
    /\ (op'.flag \/ ~Fresh(op'.path))

\* the file at p exists and is larger than the ceiling
Oversized(p) == osStat(fs, p).err = "" /\ osStat(fs, p).size > MaxFileSize

\* C26: on a cache miss or a force-refresh a file larger than the ceiling
\* is rejected with the file-too-large error: no content is returned, not
\* even a prefix, and the cache is left as it was
C26_OversizedRejected ==
    [][(DiskRead /\ Oversized(op'.path)) =>
         /\ op'.err = "FileTooLarge"
         /\ op'.out = <<>>
         /\ cache' = cache]_vars

\* a forced read of a file written larger than the ceiling was rejected
C26_Witness ==
    /\ op.kind = "read" /\ op.flag
    /\ op.err = "FileTooLarge"
    /\ Oversized(op.path)
    /\ op.path \in DOMAIN cache

\* the entries of the cache before the step that are gone after it, the
\* path q set by the step apart
Removed(q) == (DOMAIN cache \ DOMAIN cache') \cup ({q} \cap DOMAIN cache)

\* the step removed entries so that half the capacity remained, none of
\* them newer than one that remained
OldestHalfPurged(gone) ==
    /\ Cardinality(DOMAIN cache \ gone) = CacheMaxSize \div 2
    /\ \A d \in gone, k \in DOMAIN cache \ gone : cache[d].time <= cache[k].time

\* C27: the cache never holds more entries than its capacity; an insert
\* that finds the entry count at capacity removes in one pass the oldest
\* entries so that half the capacity remains, no removed entry newer than a
\* surviving one; a lookup changes no entry
C27_CacheBounded ==
    /\ [](Cardinality(DOMAIN cache) <= CacheMaxSize)
    /\ [][(cache' # cache /\ Cardinality(DOMAIN cache) >= CacheMaxSize) =>
            \/ OldestHalfPurged(DOMAIN cache \ DOMAIN cache')
            \/ OldestHalfPurged(Removed(op'.path))]_vars
    /\ [][\A p \in DOMAIN cache \cap DOMAIN cache' :
            p # op'.path => cache'[p] = cache[p]]_vars
    /\ [][(op'.n = op.n + 1 /\ op'.kind = "read" /\ ~op'.flag /\ op'.err = ""
             /\ Fresh(op'.path)) => cache' = cache]_vars

\* a read found the cache at capacity: the older half is gone, the newest
\* entry of the full cache and the file just read are there
C27_Witness ==
    /\ op.kind = "read" /\ op.err = ""
    /\ op.path \in DOMAIN cache
    /\ CachedPath(CacheMaxSize) \in DOMAIN cache
    /\ CachedPath(1) \notin DOMAIN cache
    /\ Cardinality(DOMAIN cache) = CacheMaxSize \div 2 + 1

\* the target of the running or last WriteFile existed when it was called
TargetExisted == osReadFile(op.fs0, op.path).err = ""

\* the content the target had then
PreWriteContent == osReadFile(op.fs0, op.path).content

\* the target has been modified since
TargetModified == osReadFile(fs, op.path) # osReadFile(op.fs0, op.path)

\* the backup directory holds a record of the target with that content
BackupRecordExists ==
    \E t \in 0..now :
      LET record == osReadFile(fs, Join(BackupDir, BackupName(op.path, t)))
      IN  record.err = "" /\ record.content = PreWriteContent

\* C28: when WriteFile is called with backup enabled on an existing target,
\* a backup record holding exactly the target's pre-write content exists in
\* the backup directory before the target is modified
C28_BackupBeforeModify ==
    (op.kind = "write" /\ op.flag /\ TargetExisted
       /\ (op.pc \in {"temp", "write", "rename"} \/ TargetModified))
      => BackupRecordExists

\* a write with backup has replaced an existing target
C28_Witness ==
    /\ op.kind = "write" /\ op.flag /\ op.pc = "done" /\ op.err = ""
    /\ TargetExisted
    /\ TargetModified
    /\ osReadFile(fs, op.path).content = op.content
    /\ BackupRecordExists

\* the last operation is a read_file or write_file call that the engine
\* failed with err
EngineFailed(err) ==
    /\ op.kind \in {"read", "write"}
    /\ op.pc = "done"
    /\ op.err = err

\* the code the tool reports for it
ReportedCode ==
    ConvertToMCPError(ErrorText(op.err, createBackup(fs, now, op.path).err))

\* C29: a failure of the file engine is reported by the file tools under
\* its own error kind: PathNotAllowed for a validation failure, FileTooLarge
\* for an oversized file, BackupFailed for a failed backup, never as a
\* generic internal or input/output error
C29_DistinctErrorKinds ==
    /\ \A err \in {"PathNotAllowed", "TypeNotAllowed", "EvalSymlinksFailed"} :
         EngineFailed(err) => ReportedCode = "CodePathNotAllowed"
    /\ EngineFailed("FileTooLarge") => ReportedCode = "CodeFileTooLarge"
    /\ EngineFailed("BackupFailed") => ReportedCode = "CodeBackupFailed"

-----------------------------------------------------------------------------
(* Claims about tool calls whose arguments do not parse *)

\* the arguments are neither absent, nor an object, nor a string holding an
\* object
Unparsable(arguments) ==
    /\ Len(arguments) > 0
    /\ ~IsJSONObject(arguments)
    /\ ~(IsJSONString(arguments) /\ IsJSONObject(Unquote(arguments)))

\* the content of a tool message reporting a failure
FailureContent == Quote(Quote(<<"Error">>))

\* this step ends the execution of the batch of command c
BatchDone(c) == c.k = "exec" /\ CopiesIn(c, cmds') < CopiesIn(c, cmds)

\* the messages this step appends to the history
Appended == SubSeq(apiMessages', Len(apiMessages) + 1, Len(apiMessages'))

\* C30: a tool call whose arguments cannot be parsed into a key/value map
\* is not executed: whatever its handler would have done, a tool message
\* with the failure text is produced for its id; the other calls of the
\* batch are dispatched all the same, each with its message, and the
\* conversation continues with a new stream
C30_UnparsableCallFails ==
    [][\A c \in BagToSet(cmds) :
         BatchDone(c) =>
           /\ Len(Appended) = Len(c.calls)
           /\ \A k \in 1..Len(c.calls) :
                /\ Appended[k].role = "tool"
                /\ Appended[k].tool_call_id = c.calls[k].id
                /\ Unparsable(c.calls[k].arguments) => Appended[k].content = FailureContent
           /\ Len(streams') = Len(streams) + 1
           /\ streams'[Len(streams')].pc = "run"
           /\ thinking']_vars

\* a batch whose first call had a truncated object as arguments and whose
\* second call succeeded, and the stream opened after it
C30_Witness ==
    /\ Len(streams) = 2
    /\ Len(apiMessages) >= 4
    /\ apiMessages[2].tool_calls[1].arguments = Quote(<<"{">>)
    /\ apiMessages[3].role = "tool" /\ apiMessages[3].tool_call_id = "c1"
    /\ apiMessages[3].content = FailureContent
    /\ apiMessages[4].role = "tool" /\ apiMessages[4].tool_call_id = "c2"
    /\ apiMessages[4].content = Quote(<<"done">>)

-----------------------------------------------------------------------------
(* Claims about a turn that fails *)

\* this step is the Loop taking the producer's error from errCh
ErrorReported ==
    \E s \in DOMAIN streams : Len(streams'[s].errCh) < Len(streams[s].errCh)

\* history h holds an assistant message with a tool call that no later
\* tool message answers
Unresolved(h) ==
    \E i \in 1..Len(h) :
      /\ h[i].role = "assistant"
      /\ \E k \in 1..Len(h[i].tool_calls) :
           ~\E j \in (i + 1)..Len(h) :
              h[j].role = "tool" /\ h[j].tool_call_id = h[i].tool_calls[k].id

\* C31: when the Loop takes the producer's failure it returns to Idle, and
\* the history holds no assistant message of the failed turn: no text is
\* committed by that step and no tool-call message is left without its
\* results
C31_FailedTurnLeavesNoAssistant ==
    [][ErrorReported =>
         /\ ~thinking'
         /\ apiMessages' = apiMessages
         /\ ~Unresolved(apiMessages')]_vars

-----------------------------------------------------------------------------
(* Claims about FileWalker.Walk *)

\* the walker of the last operation
Walker == FileWalker(op.path, op.content, op.out, op.written)

\* the path strings filepath.Walk builds for the entries at or below the root
WalkEntries ==
    LET top == LLookup(fs, op.path).path
    IN  { Path(op.path.abs, Clean(op.path).comps \o SubSeq(x, Len(top) + 1, Len(x))) :
            x \in { y \in DOMAIN fs \cup {<<>>} : IsUnder(y, top) } }

\* the entry at p is a file the walker is to report: not a directory, no
\* deeper than the maximum depth, valid, included and not excluded
Qualifies(p) ==
    LET a == LLookup(fs, p).path
        rel == Rel(Abs(op.path), Abs(p))
    IN  /\ KindAt(fs, a) # "dir"
        /\ op.written >= 0 => Len(rel) - 1 <= op.written
        /\ ValidatePath(fs, p) = ""
        /\ (op.content # <<>> /\ op.content # <<"*">>) => Match(op.content, Base(p)).matched
        /\ op.out # <<>> => ~Match(op.out, Base(p)).matched

\* C32: Walk invokes the callback only on files that pass ValidatePath,
\* match the filters and lie no deeper than the maximum depth; an entry that
\* fails validation is skipped without error and the walk goes on: every
\* such file at or below the root is reported
C32_WalkReportsValidFiles ==
    (op.kind = "walk" /\ op.err = "") =>
      /\ \A p \in op.listing : p \in WalkEntries /\ Qualifies(p)
      /\ \A p \in WalkEntries : Qualifies(p) => p \in op.listing

\* a walk of the working directory without depth limit that passed over the
\* symlink leaving the root and the blacklisted file and reported the files
\* beside and below them
C32_Witness ==
    /\ op.kind = "walk" /\ op.err = ""
    /\ op.path = Path(FALSE, <<Dot>>) /\ op.written = 0 - 1
    /\ op.content = <<>> /\ op.out = <<>>
    /\ ValidatePath(fs, Path(FALSE, << <<"l">> >>)) # ""
    /\ Path(FALSE, << <<"l">> >>) \notin op.listing
    /\ Path(FALSE, << <<"d">>, <<"g", ".exe">> >>) \notin op.listing
    /\ Path(FALSE, << <<"f">> >>) \in op.listing
    /\ Path(FALSE, << <<"d">>, <<"e">>, <<"f">> >>) \in op.listing

-----------------------------------------------------------------------------
(* Claims about a tool handler that panics *)

\* the handler of call k was reached and panicked
Panicked(k) ==
    /\ htc.outcomes[k] = "panic"
    /\ ~Unparsable(htc.calls[k].arguments)

\* C33: a panic of a tool handler does not leave the dispatch loop: the
\* loop is never unwound, a tool message is produced for the id of the call
\* whose handler panicked, and the calls after it are dispatched, so that
\* the batch returns with one message per call
C33_PanicContained ==
    /\ htc.pc # "panicked"
    /\ \A k \in 1..(htc.i - 1) :
         Panicked(k) =>
           /\ Len(htc.messages) >= k
           /\ htc.messages[k].role = "tool"
           /\ htc.messages[k].tool_call_id = htc.calls[k].id
    /\ htc.pc = "returned" =>
         /\ Len(htc.dispatched) = Len(htc.calls)
         /\ Len(htc.ret) = Len(htc.calls)

\* a batch of two calls has returned: the handler of the first panicked, the
\* second did its work
C33_Witness ==
    /\ htc.pc = "returned"
    /\ Len(htc.calls) = 2
    /\ Panicked(1)
    /\ htc.ret[1].tool_call_id = htc.calls[1].id
    /\ htc.ret[2].content = Quote(<<"done">>)

-----------------------------------------------------------------------------
(* Claims about the order in which the Loop takes what the producer sent *)

\* C34: when the Loop handles the end of a stream, the text deltas and the
\* tool-call batches the producer enqueued for that stream have been
\* consumed: none waits in chunkCh or toolCallCh
C34_EndOfStreamLast ==
    [][\A c \in BagToSet(cmds) : \A which \in Channels :
         UpdateCheckStream(c, which) =>
           /\ streams[c.s].toolCallCh = <<>>
           /\ \A i \in 1..Len(streams'[c.s].chunkCh) : streams'[c.s].chunkCh[i] = <<>>]_vars

\* C35: the Loop handles a stream error only when the producer sent one on
\* errCh, a tool-call event only for a non-empty batch the producer sent on
\* toolCallCh, and a delta only for one the producer sent: the closing of the
\* channels is taken for none of them
C35_ClosingIsNoEvent ==
    [][\A c \in BagToSet(cmds) : \A which \in Channels :
         /\ UpdateStreamError(c, which) => streams[c.s].errCh # <<>>
         /\ UpdateToolCall(c, which) =>
              /\ streams[c.s].toolCallCh # <<>>
              /\ Head(streams[c.s].toolCallCh) # <<>>
         /\ UpdateStreamChunk(c, which) => Chan(streams[c.s], which) # <<>>]_vars

-----------------------------------------------------------------------------
(* Claims about the pending tool calls *)

\* C36: whenever the Loop is Idle no tool call is pending, so that a call
\* collected in a turn that was cancelled or that failed is not executed in
\* a later turn
C36_IdleHasNoPending == ~thinking => pendingToolCalls = <<>>

-----------------------------------------------------------------------------
(* Claims about WriteFile calls that run at the same time *)

BothReturned == writers # <<>> /\ \A i \in DOMAIN writers : writers[i].pc = "done"

\* the content of the target of the calls
TargetNow == osReadFile(fs, writers[1].path)
TargetBefore == osReadFile(InitialFS, writers[1].path)

\* C37: once two WriteFile calls on one path that ran at the same time have
\* both returned, the target holds the content of a call that returned
\* success, the cache entry for the path equals the content of the target,
\* and calls that returned an error have not changed the target
C37_ConcurrentWrites ==
    BothReturned =>
      /\ (\E i \in DOMAIN writers : writers[i].err = "") =>
           \E i \in DOMAIN writers :
             writers[i].err = "" /\ TargetNow.err = "" /\ TargetNow.content = writers[i].content
      /\ (\A i \in DOMAIN writers : writers[i].err # "") => TargetNow = TargetBefore
      /\ writers[1].path \in DOMAIN cache =>
           TargetNow.err = "" /\ cache[writers[1].path].content = TargetNow.content

-----------------------------------------------------------------------------
(* Claims about the spellings of a path *)

\* p and q denote the same file
SameFile(p, q) ==
    LET a == Lookup(fs, p)
        b == Lookup(fs, q)
    IN  ErrOf(a) = "" /\ ErrOf(b) = "" /\ a.path = b.path

\* C38: after a successful WriteFile through one path string, a ReadFile
\* without force-refresh through any other path string that denotes the same
\* file returns the new content
C38_AliasReadsNewContent ==
    (op.kind = "write" /\ op.pc = "done" /\ op.err = "") =>
      \A q \in AliasPaths :
        SameFile(op.path, q) =>
          LET r == ReadFile(fs, cache, now, q, FALSE)
          IN  r.err = "" /\ r.content = op.content

-----------------------------------------------------------------------------
(* Claims about the backup records *)

\* the files in the backup directory
BackupRecords(f) ==
    { x \in DOMAIN f : /\ x # Abs(BackupDir)
                       /\ IsUnder(x, Abs(BackupDir))
                       /\ f[x].kind = "file" }

\* C39: a backup record, once created, is never overwritten or removed by a
\* later engine operation, so that two successive backed-up overwrites of a
\* path leave two records with the two pre-write contents
C39_BackupRecordsKept ==
    [][\A x \in BackupRecords(fs) : x \in BackupRecords(fs') /\ fs'[x] = fs[x]]_vars

-----------------------------------------------------------------------------
(* Claims about a WriteFile that fails *)

\* what the path of the last WriteFile holds in cache c
CacheEntry(c) == IF op.path \in DOMAIN c THEN <<c[op.path]>> ELSE <<>>

\* C40: when WriteFile returns an error, at whatever step, the content of
\* the target and the cache entry for the path are what they were before
\* the call, and no temporary file is left behind: the name of the temporary
\* file holds what it held before the call
C40_FailedWriteChangesNothing ==
    (op.kind = "write" /\ op.pc = "done" /\ op.err # "") =>
      /\ osReadFile(fs, op.path) = osReadFile(op.fs0, op.path)
      /\ CacheEntry(cache) = CacheEntry(op.cache0)
      /\ osReadFile(fs, TempFile(op.path)) = osReadFile(op.fs0, TempFile(op.path))

====
